---- MODULE Spec2Model ----
(***************************************************************************)
(* Genesis: cross-platform installation orchestration.                     *)
(*                                                                         *)
(* Spec        - one InstallationService.installTools batch, driven over   *)
(*               the adapter selected by the operating system.             *)
(* SpecAdapter - one package-manager adapter instance receiving an         *)
(*               arbitrary sequence of update() and install() calls.       *)
(***************************************************************************)
EXTENDS Integers, Sequences, FiniteSets, TLC

\* ---------------------------------------------------------------- bounds
MaxTools == 2
MaxCalls == 3
MaxTicks == 1
FillerLength == 1022

\* ------------------------------------------------------------- data model
OSes == {"macos", "windows", "linux"}

\* absent installCommands entry (undefined)
NoCmd == {"<undefined>"}

\* A command string is represented by the set of the substrings the code
\* looks for in it.
gitTool ==
    [id |-> "git", isGUI |-> FALSE,
     installCommands |-> [macos |-> {"brew install"},
                          windows |-> {"winget install", "--id"},
                          linux |-> {"sudo", "apt-get install"}]]
gitkrakenTool ==
    [id |-> "gitkraken", isGUI |-> TRUE,
     installCommands |-> [macos |-> {"brew install"},
                          windows |-> {"winget install", "--id"},
                          linux |-> {"sudo", "snap install"}]]
nvmTool ==
    [id |-> "nvm", isGUI |-> FALSE,
     installCommands |-> [macos |-> {"curl"},
                          windows |-> {"winget install", "--id"},
                          linux |-> {"curl"}]]
yarnTool ==
    [id |-> "yarn", isGUI |-> FALSE,
     installCommands |-> [macos |-> {"brew install"},
                          windows |-> {"winget install", "--id"},
                          linux |-> {"npm install"}]]
sourcetreeTool ==
    [id |-> "sourcetree", isGUI |-> TRUE,
     installCommands |-> [macos |-> {"brew install"},
                          windows |-> {"winget install", "--id"},
                          linux |-> NoCmd]]
fastlaneTool ==
    [id |-> "fastlane", isGUI |-> FALSE,
     installCommands |-> [macos |-> {"brew install"},
                          windows |-> NoCmd,
                          linux |-> {"sudo", "gem install"}]]

cursorTool ==
    [id |-> "cursor", isGUI |-> TRUE,
     installCommands |-> [macos |-> {"brew install"},
                          windows |-> {"winget install", "--id"},
                          linux |-> {"curl", "sudo", "apt-get install"}]]

Catalog == {gitTool, gitkrakenTool, nvmTool, yarnTool, sourcetreeTool, fastlaneTool}

getInstallCommand(tool, o) ==
    CASE o = "macos" -> tool.installCommands.macos
      [] o = "windows" -> tool.installCommands.windows
      [] o = "linux" -> tool.installCommands.linux
      [] OTHER -> NoCmd

\* exit codes a child process is observed to end with
ExitCodes == {0, 1}
TimeoutExitCode == 124
DefaultTimeout == 300000
HomebrewTimeout == 600000
SetxLimit == 1024

VARIABLES
    os,               \* getCurrentOS()
    tools,            \* the caller-supplied list of installTools
    pc,               \* position of the batch
    cur,              \* index of the tool installTool is working on
    active,           \* installTool invocations started and not yet recorded
    pending,          \* the outcome installTool returned, before results.push
    results,          \* installTools' results
    escaped,          \* an exception left installTools
    packageManager,   \* InstallationService.packageManager (0 is null)
    constructed,      \* adapter instances constructed by getPackageManager
    orchAvail,        \* isAvailable() calls made by getPackageManager
    bootstrapPrompts, \* "install Homebrew now?" prompts shown
    hist,             \* per tool, or for the last direct call: what happened
    procPath,         \* process.env.PATH, split at the separator
    brewAvail,        \* a brew binary is reachable
    wingetAvail,      \* winget --version works
    aptAvail,         \* which apt-get works
    isRoot,           \* uid 0 / Windows admin
    sess,             \* SudoExecutor / sudo credential cache state
    adKind,           \* class of the adapter instance in use
    ad,               \* that instance's fields and the commands it ran
    calls,            \* direct calls made (SpecAdapter, SpecSudo, SpecEnv)
    store,            \* the user's shell, its rc file and the registry's user PATH
    run,              \* the executeInteractive call in progress
    cwd,              \* process.cwd()
    withOptions,      \* the executeWithOptions calls made, in call order
    selection         \* main: the categories offered and what was selected

vars == <<os, tools, pc, cur, active, pending, results, escaped, packageManager,
          constructed, orchAvail, bootstrapPrompts, hist, procPath, brewAvail,
          wingetAvail, aptAvail, isRoot, sess, adKind, ad, calls, store, run,
          cwd, withOptions, selection>>


\* --------------------------------------------------------- Process Executor
\* String.prototype.trim on a sequence of characters
trim(text) ==
    LET solid == {k \in 1..Len(text) : text[k] # " "}
        first == CHOOSE k \in solid : \A j \in solid : k <= j
        last == CHOOSE k \in solid : \A j \in solid : k >= j
    IN IF solid = {} THEN <<>> ELSE SubSeq(text, first, last)

\* new ShellError(message, exitCode, command, stdout, stderr)
ShellError(message, exitCode, command, stdout, stderr) ==
    [name |-> "ShellError", message |-> message, exitCode |-> exitCode,
     command |-> command, stdout |-> stdout, stderr |-> stderr]

\* an executeString that throws whatever options.silent says
executeStringLoud(command, code, stdout, stderr, silent) ==
    IF code = {0}
      THEN [threw |-> FALSE, exitCode |-> 0, command |-> command,
            stdout |-> trim(stdout), stderr |-> trim(stderr), error |-> {}]
      ELSE [threw |-> TRUE, exitCode |-> 1, command |-> command,
            stdout |-> trim(stdout), stderr |-> trim(stderr),
            error |-> {ShellError("Comando falhou com exit code", 1, command,
                                  trim(stdout), trim(stderr))}]

\* executeString with what it captures: the child ends with exit code
\* code ({} when it was killed by a signal and error.code is null) having
\* written stdout and stderr
executeStringCaptured(command, code, stdout, stderr, silent) ==
    LET exitCode == IF code \in {{}, {0}} THEN 1 ELSE CHOOSE c \in code : TRUE   \* error.code || 1
        shellError == ShellError("Comando falhou com exit code", exitCode, command,
                                 trim(stdout), trim(stderr))
    IN
    IF code = {0}
      THEN [threw |-> FALSE, exitCode |-> 0, command |-> command,
            stdout |-> trim(stdout), stderr |-> trim(stderr), error |-> {}]
    ELSE IF silent
      THEN [threw |-> FALSE, exitCode |-> exitCode, command |-> command,
            stdout |-> trim(stdout), stderr |-> trim(stderr), error |-> {}]
    ELSE [threw |-> TRUE, exitCode |-> exitCode, command |-> command,
          stdout |-> trim(stdout), stderr |-> trim(stderr), error |-> {shellError}]

\* executeString, for a child that ends with exit code c
executeString(c, silent) ==
    LET r == executeStringCaptured({"<command>"}, {c}, <<>>, <<>>, silent)
    IN [threw |-> r.threw, exitCode |-> r.exitCode]

\* what ends an interactive run: the child's close event, the timer, or a
\* spawn error
InteractiveEvents == {"close", "timeout", "error"}

\* executeInteractive, ended by event ev (close code c)
executeInteractive(ev, c) ==
    CASE ev = "close" -> [threw |-> FALSE, exitCode |-> c, stderr |-> ""]
      [] ev = "timeout" -> [threw |-> TRUE, exitCode |-> TimeoutExitCode, stderr |-> "Timeout"]
      [] OTHER -> [threw |-> TRUE, exitCode |-> 1, stderr |-> "spawn error"]

\* executeInteractive step by step.  run holds the timeout in force, the time
\* elapsed, the timer (armed, fired, cleared), the child (running, closed,
\* errored), the promise, the value it settled with, the SIGTERMs sent, the
\* resolve/reject calls made and the code of the close event.
NoRun ==
    [timeout |-> 0, clock |-> 0, timer |-> "none", child |-> "none", promise |-> "none",
     outcome |-> {}, signals |-> 0, settleCalls |-> 0, closeCode |-> {}]

\* options?.timeout ?? 300000; the option is absent ({}) or holds one value
timeoutOf(option) == IF option = {} THEN DefaultTimeout ELSE CHOOSE t \in option : TRUE

\* spawn(cmd, args, {stdio: "inherit", shell: true}) and setTimeout
spawnInteractive(option) ==
    [NoRun EXCEPT !.timeout = timeoutOf(option), !.timer = "armed", !.child = "running",
                  !.promise = "pending"]

\* resolve / reject: only the first call settles the promise
settle(r, o) ==
    IF r.promise = "pending"
      THEN [r EXCEPT !.promise = IF o.threw THEN "rejected" ELSE "resolved",
                     !.outcome = {o}, !.settleCalls = @ + 1]
      ELSE [r EXCEPT !.settleCalls = @ + 1]

\* clearTimeout(timeoutId)
clearTimeout(r) == [r EXCEPT !.timer = IF @ = "armed" THEN "cleared" ELSE @]

\* the setTimeout callback: child.kill("SIGTERM"), reject(ShellError 124)
onTimeout(r) ==
    settle([r EXCEPT !.timer = "fired", !.signals = @ + 1],
           executeInteractive("timeout", 0))

\* a close handler that leaves the timer armed
onCloseKeepsTimer(r, code) ==
    settle([r EXCEPT !.child = "closed", !.closeCode = code],
           executeInteractive("close", IF code = {} THEN 0 ELSE CHOOSE c \in code : TRUE))

\* child.on("close"): clearTimeout, resolve({exitCode: code ?? 0}); code is
\* {} when the event carries null
onClose(r, code) ==
    settle(clearTimeout([r EXCEPT !.child = "closed", !.closeCode = code]),
           executeInteractive("close", IF code = {} THEN 0 ELSE CHOOSE c \in code : TRUE))

\* child.on("error"): clearTimeout, reject(ShellError 1)
onError(r) ==
    settle(clearTimeout([r EXCEPT !.child = "errored"]), executeInteractive("error", 1))

\* stderr texts a failing command may leave
Stderrs == {"", "unable to locate package"}

\* ------------------------------------------------- Privilege Session Manager
\* sess holds SudoExecutor.keepAliveStop ({} is null, {t} the closure that
\* clears interval t, {0} the Windows no-op closure), the intervals that are
\* scheduled (timers), the exit listeners registered, sudo's credential cache
\* (cached) and counters of what the user and the system saw: consent prompts,
\* `sudo -v` dialogs (validations), requests that ended false (denials),
\* intervals created (started), clearInterval calls (cleared), keep-alive
\* ticks and the ticks whose refresh failed.
Answers == {"yes", "no", "cancel"}

\* PrivilegeChecker.isAdmin
isAdmin == isRoot

\* PrivilegeChecker.isSudoCached
isSudoCached(s) == os # "windows" /\ s.cached

\* PrivilegeChecker.startSudoKeepAlive: the stop closure and the session
startSudoKeepAlive(s) ==
    IF os = "windows" THEN [stop |-> {0}, sess |-> s]
    ELSE LET t == s.started + 1 IN
         [stop |-> {t}, sess |-> [s EXCEPT !.started = t, !.timers = @ \cup {t}]]

\* an interval callback that gives the keep-alive up when the refresh fails
keepAliveTickStopsOnFailure(s, c) ==
    IF c = 0 THEN [s EXCEPT !.ticks = @ + 1]
    ELSE [s EXCEPT !.ticks = @ + 1, !.tickFails = @ + 1, !.timers = {}, !.keepAliveStop = {}]

\* the interval callback of startSudoKeepAlive: `sudo -v` ends with code c,
\* a failure is swallowed by the empty catch
keepAliveTick(s, c) ==
    [s EXCEPT !.ticks = @ + 1, !.tickFails = @ + (IF c = 0 THEN 0 ELSE 1)]

\* the closure startSudoKeepAlive returns: clearInterval(t)
clearInterval(t, s) ==
    IF t = 0 THEN s
    ELSE [s EXCEPT !.timers = @ \ {t}, !.cleared = Append(@, t)]

\* a startKeepAlive that never schedules the refresh
startKeepAliveNever(s) == s

\* a startKeepAlive without the keepAliveStop test
startKeepAliveUnguarded(s) ==
    LET k == startSudoKeepAlive(s) IN
    [k.sess EXCEPT !.keepAliveStop = k.stop, !.listeners = @ + 1]

\* SudoExecutor.startKeepAlive
startKeepAlive(s) ==
    IF s.keepAliveStop # {} THEN s
    ELSE LET k == startSudoKeepAlive(s) IN
         [k.sess EXCEPT !.keepAliveStop = k.stop, !.listeners = @ + 1]

\* a stopKeepAlive that leaves keepAliveStop set
stopKeepAliveKeepsHandle(s) ==
    IF s.keepAliveStop # {}
      THEN clearInterval(CHOOSE t \in s.keepAliveStop : TRUE, s)
      ELSE s

\* SudoExecutor.stopKeepAlive
stopKeepAlive(s) ==
    IF s.keepAliveStop # {}
      THEN [clearInterval(CHOOSE t \in s.keepAliveStop : TRUE, s) EXCEPT !.keepAliveStop = {}]
      ELSE s

\* the process's "exit" event: the n listeners startKeepAlive registered run
\* one after the other
RECURSIVE emitExit(_, _)
emitExit(n, s) == IF n = 0 THEN s ELSE emitExit(n - 1, stopKeepAlive(s))

\* SudoExecutor.requestUnixPrivileges: the user's answer a, sudo -v ends with c
requestUnixPrivileges(s) ==
    LET asked == [s EXCEPT !.prompts = @ + 1]
        refused == [asked EXCEPT !.denials = @ + 1]
    IN
    { IF a # "yes"
        THEN [ok |-> FALSE, answer |-> a, code |-> {}, sess |-> refused]
      ELSE IF c = 0
        THEN [ok |-> TRUE, answer |-> a, code |-> {c},
              sess |-> startKeepAlive([asked EXCEPT !.cached = TRUE, !.validations = @ + 1])]
      ELSE [ok |-> FALSE, answer |-> a, code |-> {c},
            sess |-> [refused EXCEPT !.validations = @ + 1]]
      : a \in Answers, c \in ExitCodes }

\* SudoExecutor.requestWindowsPrivileges
requestWindowsPrivileges(s) ==
    LET asked == [s EXCEPT !.prompts = @ + 1] IN
    { [ok |-> (a = "yes"), answer |-> a, code |-> {},
       sess |-> IF a = "yes" THEN asked ELSE [asked EXCEPT !.denials = @ + 1]]
      : a \in Answers }

\* the outcome of requestPrivileges when nothing is asked
Granted(s) == [ok |-> TRUE, answer |-> "none", code |-> {}, sess |-> s]

\* a requestPrivileges that asks although the process is root
requestPrivilegesNoAdminTest(s) ==
    IF os # "windows" /\ isSudoCached(s) THEN {Granted(s)}
    ELSE IF os = "windows" THEN requestWindowsPrivileges(s)
    ELSE requestUnixPrivileges(s)

\* a requestPrivileges that does not look at the credential cache
requestPrivilegesNoCacheTest(s) ==
    IF isAdmin THEN {Granted(s)}
    ELSE IF os = "windows" THEN requestWindowsPrivileges(s)
    ELSE requestUnixPrivileges(s)

\* SudoExecutor.requestPrivileges
requestPrivileges(s) ==
    IF isAdmin THEN {Granted(s)}
    ELSE IF os # "windows" /\ isSudoCached(s) THEN {Granted(s)}
    ELSE IF os = "windows" THEN requestWindowsPrivileges(s)
    ELSE requestUnixPrivileges(s)

\* SudoExecutor.execDirect, for a child that ends with exit code c
execDirect(c, e, withSudo, s) ==
    [success |-> (c = 0), ran |-> TRUE, sudo |-> withSudo, exitCode |-> c,
     stderr |-> IF c = 0 THEN "" ELSE IF e = "" THEN "Command failed" ELSE e,
     sess |-> s]

\* an exec that prefixes sudo whatever the process's uid
SudoExecAlwaysPrefixed(s) ==
    IF os = "windows"
      THEN { execDirect(c, e, FALSE, s) : c \in ExitCodes, e \in Stderrs }
    ELSE { execDirect(c, e, TRUE, s) : c \in ExitCodes, e \in Stderrs }

\* an exec that runs the command without the prefix when elevation is refused
SudoExecFallsBack(s) ==
    IF os = "windows"
      THEN { execDirect(c, e, FALSE, s) : c \in ExitCodes, e \in Stderrs }
    ELSE IF isAdmin \/ isSudoCached(s)
      THEN { execDirect(c, e, ~isAdmin, s) : c \in ExitCodes, e \in Stderrs }
    ELSE UNION { { execDirect(c, e, r.ok, r.sess) : c \in ExitCodes, e \in Stderrs }
                 : r \in requestPrivileges(s) }

\* SudoExecutor.exec
SudoExec(s) ==
    IF os = "windows"
      THEN { execDirect(c, e, FALSE, s) : c \in ExitCodes, e \in Stderrs }
    ELSE IF isAdmin \/ isSudoCached(s)
      THEN { execDirect(c, e, ~isAdmin, s) : c \in ExitCodes, e \in Stderrs }
    ELSE UNION {
           IF ~r.ok
             THEN {[success |-> FALSE, ran |-> FALSE, sudo |-> FALSE, exitCode |-> 1,
                    stderr |-> "Privilegios de administrador nao foram obtidos",
                    sess |-> r.sess]}
             ELSE { execDirect(c, e, TRUE, r.sess) : c \in ExitCodes, e \in Stderrs }
           : r \in requestPrivileges(s) }


\* ---------------------------------------------------- Package Manager Adapters
\* A call on an adapter ends by returning or throwing (err is the message); it
\* leaves the adapter's fields a and the privilege session s, and cmdExit holds
\* the exit code of the tool's install command when that command was run;
\* probe holds the exit code of the tool's check command when the call ran it.
Returned(a, s, cmdExit) ==
    [threw |-> FALSE, err |-> "", cmdExit |-> cmdExit, ad |-> a, sess |-> s, probe |-> {},
     interactive |-> FALSE]
Threw(msg, a, s, cmdExit) ==
    [threw |-> TRUE, err |-> msg, cmdExit |-> cmdExit, ad |-> a, sess |-> s, probe |-> {},
     interactive |-> FALSE]

RanRefresh(a) == [a EXCEPT !.refreshRuns = @ + 1]

\* HomebrewAdapter.isAvailable / HomebrewInstaller.isAvailable
HomebrewIsAvailable(brew) == brew

\* WinGetAdapter.isAvailable
WinGetIsAvailable == os = "windows" /\ wingetAvail

\* APTAdapter.isAvailable
APTIsAvailable == os = "linux" /\ aptAvail

\* LinuxInstaller.isAvailable
LinuxIsAvailable == os = "linux"

\* HomebrewAdapter.translateHomebrewError
translateHomebrewError(stderr) ==
    IF stderr = "Timeout" THEN "Falha de conexao ao tentar instalar"
    ELSE IF stderr = "already installed" THEN "ja esta instalado."
    ELSE IF stderr = "" THEN "Erro ao instalar: Comando falhou"
    ELSE "Erro ao instalar: " \o stderr

\* HomebrewAdapter.update
HomebrewUpdate(a, s) ==
    IF ~HomebrewIsAvailable(brewAvail)
      THEN {Threw("Homebrew nao esta instalado", a, s, {})}
      ELSE { IF executeString(c, FALSE).threw
               THEN Threw("Falha ao atualizar Homebrew", RanRefresh(a), s, {})
               ELSE Returned(RanRefresh(a), s, {})
             : c \in ExitCodes }

\* HomebrewAdapter.install
HomebrewInstall(tool, a, s) ==
    LET installCommand == getInstallCommand(tool, os) IN
    IF ~HomebrewIsAvailable(brewAvail)
      THEN {Threw("Homebrew nao esta instalado", a, s, {})}
    ELSE IF os # "macos"
      THEN {Threw("HomebrewAdapter so pode ser usado no macOS", a, s, {})}
    ELSE IF installCommand = NoCmd
      THEN {Threw("nao possui comando de instalacao para macOS", a, s, {})}
    ELSE { LET r == executeInteractive(ev, c) IN
           IF r.threw
             THEN [Threw(translateHomebrewError(r.stderr), a, s,
                         IF ev = "timeout" THEN {r.exitCode} ELSE {})
                     EXCEPT !.interactive = TRUE]
             ELSE [Returned(a, s, {r.exitCode}) EXCEPT !.interactive = TRUE]
           : ev \in InteractiveEvents, c \in ExitCodes }

\* WinGetAdapter.extractPackageId
extractPackageId(command) ==
    IF "--id" \in command THEN "id"
    ELSE IF "install <arg>" \in command THEN "arg"
    ELSE "null"

\* WinGetAdapter.update
WinGetUpdate(a, s) ==
    IF ~WinGetIsAvailable
      THEN {Threw("WinGet nao esta instalado", a, s, {})}
      ELSE {Returned(RanRefresh(a), s, {})}

\* what winget may print when it fails
WinGetOutputs == Stderrs \cup {"already installed"}

\* WinGetAdapter.translateWinGetError: the error's output is classified as
\* already-installed, or falls through to the generic message
translateWinGetError(stderr, exitCode) ==
    IF stderr = "already installed" \/ exitCode = 0
      THEN "ja esta instalado ou a instalacao foi concluida"
    ELSE "Erro ao instalar: " \o (IF stderr = "" THEN "Comando falhou" ELSE stderr)

\* WinGetAdapter.install
WinGetInstall(tool, a, s) ==
    LET installCommand == getInstallCommand(tool, os) IN
    IF ~WinGetIsAvailable
      THEN {Threw("WinGet nao esta instalado", a, s, {})}
    ELSE IF os # "windows"
      THEN {Threw("WinGetAdapter so pode ser usado no Windows", a, s, {})}
    ELSE IF installCommand = NoCmd
      THEN {Threw("nao possui comando de instalacao para Windows", a, s, {})}
    ELSE IF extractPackageId(installCommand) = "null"
      THEN {Threw("Nao foi possivel extrair o ID do pacote", a, s, {})}
    ELSE { IF executeString(c, FALSE).threw
             THEN Threw(translateWinGetError(e, c), a, s, {c})
             ELSE Returned(a, s, {c})
           : c \in ExitCodes, e \in WinGetOutputs }


\* APTAdapter.translateAPTErrorMessage / LinuxInstaller.translateError
translateError(stderr) ==
    IF stderr = "unable to locate package" THEN "Pacote nao encontrado nos repositorios"
    ELSE IF stderr = "" THEN "Falha ao instalar: Erro desconhecido"
    ELSE "Falha ao instalar: " \o stderr

\* the result of SudoExecutor.exec on the tool's install command, as the
\* adapters turn it into a return or a throw
FromSudoExec(e, a) ==
    IF e.success THEN Returned(a, e.sess, {e.exitCode})
    ELSE Threw(translateError(e.stderr), a, e.sess,
               IF e.ran THEN {e.exitCode} ELSE {})

\* APTAdapter.update
APTUpdate(a, s) ==
    IF ~APTIsAvailable
      THEN {Threw("APT nao esta disponivel", a, s, {})}
      ELSE UNION {
             IF ~r.ok
               THEN {Threw("Privilegios de administrador necessarios para atualizar o APT",
                           a, r.sess, {})}
               ELSE { LET ran == IF e.ran THEN RanRefresh(a) ELSE a IN
                      IF ~e.success
                        THEN Threw("Falha ao atualizar cache do APT", ran, e.sess, {})
                        ELSE Returned([ran EXCEPT !.updateExecuted = TRUE], e.sess, {})
                      : e \in SudoExec(r.sess) }
             : r \in requestPrivileges(s) }

\* APTAdapter.install
APTInstall(tool, a, s) ==
    LET installCommand == getInstallCommand(tool, os)
        updated == IF ~a.updateExecuted THEN APTUpdate(a, s) ELSE {Returned(a, s, {})}
    IN
    IF ~APTIsAvailable
      THEN {Threw("APT nao esta disponivel", a, s, {})}
    ELSE IF os # "linux"
      THEN {Threw("APTAdapter so pode ser usado no Linux", a, s, {})}
    ELSE UNION {
           IF u.threw THEN {u}
           ELSE IF installCommand = NoCmd
             THEN {Threw("nao possui comando de instalacao para Linux", u.ad, u.sess, {})}
           ELSE { FromSudoExec(e, u.ad) : e \in SudoExec(u.sess) }
           : u \in updated }

\* LinuxInstaller.update
LinuxUpdate(a, s) ==
    IF a.updateExecuted THEN {Returned(a, s, {})}
    ELSE IF ~aptAvail THEN {Returned(a, s, {})}
    ELSE UNION {
           IF ~r.ok
             THEN {Threw("Privilegios de administrador necessarios para atualizar o APT",
                         a, r.sess, {})}
             ELSE { LET ran == IF e.ran THEN RanRefresh(a) ELSE a IN
                    Returned([ran EXCEPT !.updateExecuted = TRUE], e.sess, {})
                    : e \in SudoExec(r.sess) }
           : r \in requestPrivileges(s) }

\* a detectInstallType that looks for the script fetchers first
detectInstallTypeScriptFirst(command) ==
    IF "curl" \in command THEN "curl"
    ELSE IF "wget" \in command THEN "wget"
    ELSE IF "apt-get install" \in command \/ "apt install" \in command THEN "apt"
    ELSE IF "snap install" \in command THEN "snap"
    ELSE IF "flatpak install" \in command THEN "flatpak"
    ELSE "direct"

\* LinuxInstaller.detectInstallType
detectInstallType(command) ==
    IF "apt-get install" \in command \/ "apt install" \in command THEN "apt"
    ELSE IF "snap install" \in command THEN "snap"
    ELSE IF "flatpak install" \in command THEN "flatpak"
    ELSE IF "curl" \in command THEN "curl"
    ELSE IF "wget" \in command THEN "wget"
    ELSE "direct"

\* LinuxInstaller.installWithApt
installWithApt(a, s) ==
    LET updated == IF ~a.updateExecuted THEN LinuxUpdate(a, s) ELSE {Returned(a, s, {})} IN
    UNION { IF u.threw THEN {u}
            ELSE { FromSudoExec(e, u.ad) : e \in SudoExec(u.sess) }
            : u \in updated }

\* LinuxInstaller.installWithSnap / installWithFlatpak: which ends with w
installWithUniversal(kind, a, s) ==
    UNION { IF executeString(w, TRUE).exitCode # 0
              THEN {Threw(kind \o " nao esta instalado", a, s, {})}
              ELSE { FromSudoExec(e, a) : e \in SudoExec(s) }
            : w \in ExitCodes }

\* a script install that asks for elevation like the package installs
installWithScriptElevated(a, s) ==
    { FromSudoExec(e, a) : e \in SudoExec(s) }

\* a script install that returns on the script's exit alone
installWithScriptUnprobed(a, s) ==
    { LET r == executeInteractive(ev, c) IN
      IF r.threw
        THEN [Threw("Falha ao instalar via script", a, s,
                    IF ev = "timeout" THEN {r.exitCode} ELSE {})
                EXCEPT !.interactive = TRUE]
        ELSE [Returned(a, s, {r.exitCode}) EXCEPT !.interactive = TRUE]
      : ev \in InteractiveEvents, c \in ExitCodes }

\* LinuxInstaller.installWithScript: once the script has closed, the tool's
\* check command is run silently (exit code w); a failing probe only warns
installWithScript(a, s) ==
    { LET r == executeInteractive(ev, c) IN
      IF r.threw
        THEN [Threw("Falha ao instalar via script", a, s,
                    IF ev = "timeout" THEN {r.exitCode} ELSE {})
                EXCEPT !.interactive = TRUE]
        ELSE [Returned(a, s, {r.exitCode})
                EXCEPT !.probe = {executeString(w, TRUE).exitCode}, !.interactive = TRUE]
      : ev \in InteractiveEvents, c \in ExitCodes, w \in ExitCodes }

\* LinuxInstaller.installDirect
installDirect(command, a, s) ==
    IF "sudo" \in command
      THEN { FromSudoExec(e, a) : e \in SudoExec(s) }
      ELSE { IF executeString(c, FALSE).threw
               THEN Threw("Comando falhou com exit code", a, s, {c})
               ELSE Returned(a, s, {c})
             : c \in ExitCodes }

\* LinuxInstaller.install
LinuxInstall(tool, a, s) ==
    LET installCommand == getInstallCommand(tool, os)
        installType == detectInstallType(installCommand)
    IN
    IF os # "linux"
      THEN {Threw("LinuxInstaller so pode ser usado no Linux", a, s, {})}
    ELSE IF installCommand = NoCmd
      THEN {Threw("nao possui comando de instalacao para Linux", a, s, {})}
    ELSE CASE installType = "apt" -> installWithApt(a, s)
           [] installType = "snap" -> installWithUniversal("Snap", a, s)
           [] installType = "flatpak" -> installWithUniversal("Flatpak", a, s)
           [] installType \in {"curl", "wget"} -> installWithScript(a, s)
           [] OTHER -> installDirect(installCommand, a, s)

\* IPackageManager.install / update, dispatched on the adapter's class
AdapterInstall(kind, tool, a, s) ==
    CASE kind = "homebrew" -> HomebrewInstall(tool, a, s)
      [] kind = "winget" -> WinGetInstall(tool, a, s)
      [] kind = "apt" -> APTInstall(tool, a, s)
      [] OTHER -> LinuxInstall(tool, a, s)

AdapterUpdate(kind, a, s) ==
    CASE kind = "homebrew" -> HomebrewUpdate(a, s)
      [] kind = "winget" -> WinGetUpdate(a, s)
      [] kind = "apt" -> APTUpdate(a, s)
      [] OTHER -> LinuxUpdate(a, s)


\* --------------------------------------------- Environment Persistence Manager
\* UnixEnvironmentManager.isInPath / WindowsEnvironmentManager.isInPath, on the
\* entries the orchestrator refreshes (lower-case, forward slashes only)
isInPath(path, env) == \E k \in 1..Len(env) : env[k] = path

\* refreshProcessPath
refreshProcessPath(path, env) ==
    IF \E k \in 1..Len(env) : env[k] = path THEN env ELSE <<path>> \o env

\* refreshPathAfterInstall: commonPaths of the operating system
commonPaths ==
    CASE os = "macos" -> <<"/opt/homebrew/bin", "/usr/local/bin",
                           "/opt/homebrew/sbin", "/usr/local/sbin">>
      [] os = "linux" -> <<"/home/linuxbrew/.linuxbrew/bin", "/usr/local/bin", "/snap/bin">>
      [] OTHER -> <<>>

RECURSIVE refreshEach(_, _)
refreshEach(paths, env) ==
    IF paths = <<>> THEN env
    ELSE refreshEach(Tail(paths),
                     IF ~isInPath(Head(paths), env)
                       THEN refreshProcessPath(Head(paths), env)
                       ELSE env)

\* an installTool that never refreshes the process PATH
refreshPathNever(env) == env

refreshPathAfterInstall(env) == refreshEach(commonPaths, env)

\* A path of the persistence model is the sequence of its characters; "~"
\* stands for a run of FillerLength characters.
toLowerCase(c) == IF c = "A" THEN "a" ELSE c

\* path.toLowerCase().replace(/\//g, "\\")
normalizeWindows(path) ==
    [k \in 1..Len(path) |-> LET c == toLowerCase(path[k]) IN IF c = "/" THEN "\\" ELSE c]

\* WindowsEnvironmentManager.isInPath
isInPathWindows(path, env) ==
    \E k \in 1..Len(env) : normalizeWindows(env[k]) = normalizeWindows(path)

\* the manager getEnvironmentManager returns for the operating system
ManagerIsInPath(path, env) ==
    IF os = "windows" THEN isInPathWindows(path, env) ELSE isInPath(path, env)

\* String.length
RECURSIVE strlen(_)
strlen(path) ==
    IF path = <<>> THEN 0
    ELSE (IF Head(path) = "~" THEN FillerLength ELSE 1) + strlen(Tail(path))

\* the length of entries.join(";")
RECURSIVE joinedLength(_)
joinedLength(entries) ==
    IF entries = <<>> THEN 0
    ELSE IF Len(entries) = 1 THEN strlen(entries[1])
    ELSE strlen(Head(entries)) + 1 + joinedLength(Tail(entries))

\* String.includes
IsSubstring(path, text) ==
    \E k \in 0..(Len(text) - Len(path)) : SubSeq(text, k + 1, k + Len(path)) = path

\* the variables setVariable is called with, and no value
VarNames == {"X"}
Unset == <<>>

\* no rc file, an empty user PATH, no variable in the registry (userVars)
\* or in process.env (env)
NoStore ==
    [shell |-> "unknown", rcExists |-> FALSE, rc |-> <<>>, userPath |-> <<>>,
     userVars |-> [n \in VarNames |-> Unset], env |-> [n \in VarNames |-> Unset]]

\* UnixEnvironmentManager.generateExportLine
generateExportLine(path, shell) ==
    [kind |-> IF shell = "fish" THEN "set -gx" ELSE "export", name |-> "PATH", text |-> path]

\* the PATH lines of the rc file that add path
PathLines(path, st) ==
    {k \in 1..Len(st.rc) : st.rc[k].kind \in {"set -gx", "export"}
                            /\ st.rc[k].name = "PATH" /\ st.rc[k].text = path}

\* the entries of the registry's user PATH that Windows resolves to path
PathEntries(path, st) ==
    {k \in 1..Len(st.userPath) : normalizeWindows(st.userPath[k]) = normalizeWindows(path)}

\* how many persisted entries the operating system's medium holds for path
Persisted(path, st) ==
    Cardinality(IF os = "windows" THEN PathEntries(path, st) ELSE PathLines(path, st))

\* the result of an environment call, the live PATH and the medium it leaves
EnvResult(success, restart, env, st) ==
    [success |-> success, requiresRestart |-> restart, env |-> env, store |-> st,
     write |-> IF restart THEN "ok" ELSE "none", tried |-> 0]

\* the catch clause of a call whose persistent write threw
WriteFailed(env, st) ==
    [success |-> FALSE, requiresRestart |-> FALSE, env |-> env, store |-> st,
     write |-> "failed", tried |-> 0]

\* the line "# ... Adicionado por Genesis" written before an entry
CommentLine == [kind |-> "comment", name |-> "", text |-> <<>>]

\* UnixEnvironmentManager.addToPath; appendFileSync works or throws
addToPathUnix(path, env, st) ==
    IF isInPath(path, env) THEN {EnvResult(TRUE, FALSE, env, st)}
    ELSE IF st.shell = "unknown" THEN {EnvResult(FALSE, FALSE, env, st)}
    ELSE IF st.rcExists /\ \E k \in 1..Len(st.rc) : IsSubstring(path, st.rc[k].text)
      THEN {EnvResult(TRUE, FALSE, env, st)}
    ELSE { IF written
             THEN EnvResult(TRUE, TRUE, refreshProcessPath(path, env),
                            [st EXCEPT !.rcExists = TRUE,
                                       !.rc = @ \o <<CommentLine,
                                                     generateExportLine(path, st.shell)>>])
             ELSE WriteFailed(env, st)
           : written \in BOOLEAN }

\* WindowsEnvironmentManager.getUserPath; PowerShell answers or throws
getUserPath(env, st) == {st.userPath, env}

\* `${currentPath};${path}`
newPath(currentPath, path) ==
    IF currentPath = <<>> THEN <<<<>>, path>> ELSE Append(currentPath, path)

\* addToPath without the test of newPath.length
addToPathWindowsUnlimited(path, env, st) ==
    IF isInPathWindows(path, env) THEN {EnvResult(TRUE, FALSE, env, st)}
    ELSE { [EnvResult(TRUE, TRUE, refreshProcessPath(path, env),
                      [st EXCEPT !.userPath = newPath(currentPath, path)])
              EXCEPT !.tried = joinedLength(newPath(currentPath, path))]
           : currentPath \in getUserPath(env, st) }

\* WindowsEnvironmentManager.addToPath; setx works or throws.  tried is the
\* length of the value the call set out to store.
addToPathWindows(path, env, st) ==
    IF isInPathWindows(path, env) THEN {EnvResult(TRUE, FALSE, env, st)}
    ELSE UNION {
           { [r EXCEPT !.tried = joinedLength(newPath(currentPath, path))]
             : r \in IF joinedLength(newPath(currentPath, path)) > SetxLimit
                       THEN {EnvResult(FALSE, FALSE, env, st)}
                       ELSE { IF written
                                THEN EnvResult(TRUE, TRUE, refreshProcessPath(path, env),
                                               [st EXCEPT !.userPath = newPath(currentPath, path)])
                                ELSE WriteFailed(env, st)
                              : written \in BOOLEAN } }
           : currentPath \in getUserPath(env, st) }

\* UnixEnvironmentManager.generateVariableExport
generateVariableExport(name, value, shell) ==
    [kind |-> IF shell = "fish" THEN "set -gx" ELSE "export", name |-> name, text |-> value]

\* UnixEnvironmentManager.setVariable; the file write works or throws
setVariableUnix(name, value, env, st) ==
    IF st.shell = "unknown" THEN {EnvResult(FALSE, FALSE, env, st)}
    ELSE LET exportLine == generateVariableExport(name, value, st.shell)
             \* new RegExp(`^export\\s+${name}=`, "m")
             matches == {k \in 1..Len(st.rc) : st.rc[k].kind = "export" /\ st.rc[k].name = name}
             first == CHOOSE k \in matches : \A j \in matches : k <= j
             content == IF ~st.rcExists THEN <<CommentLine, exportLine>>
                        ELSE IF matches # {} THEN [st.rc EXCEPT ![first] = exportLine]
                        ELSE st.rc \o <<CommentLine, exportLine>>
         IN
         { IF written
             THEN EnvResult(TRUE, TRUE, env,
                            [st EXCEPT !.rcExists = TRUE, !.rc = content, !.env[name] = value])
             ELSE WriteFailed(env, st)
           : written \in BOOLEAN }

\* WindowsEnvironmentManager.setVariable; setx works or throws
setVariableWindows(name, value, env, st) ==
    { [r EXCEPT !.tried = strlen(value)]
      : r \in IF strlen(value) > SetxLimit THEN {EnvResult(FALSE, FALSE, env, st)}
              ELSE { IF written
                       THEN EnvResult(TRUE, TRUE, env,
                                      [st EXCEPT !.userVars[name] = value,
                                                 !.env[name] = value])
                       ELSE WriteFailed(env, st)
                     : written \in BOOLEAN } }

\* setVariable of the manager getEnvironmentManager returns
setVariable(name, value, env, st) ==
    IF os = "windows" THEN setVariableWindows(name, value, env, st)
    ELSE setVariableUnix(name, value, env, st)

\* the values of the assignments the medium holds for name, in file order
AssignedValues(name, st) ==
    IF os = "windows"
      THEN IF st.userVars[name] = Unset THEN <<>> ELSE <<st.userVars[name]>>
      ELSE LET Assigns(line) == line.kind \in {"set -gx", "export"} /\ line.name = name
               lines == SelectSeq(st.rc, Assigns)
           IN [k \in 1..Len(lines) |-> lines[k].text]

\* addToPath of the manager getEnvironmentManager returns
addToPath(path, env, st) ==
    IF os = "windows" THEN addToPathWindows(path, env, st) ELSE addToPathUnix(path, env, st)

\* ---------------------------------------------------- Installation Orchestrator
FreshAdapter == [updateExecuted |-> FALSE, refreshRuns |-> 0]

\* HomebrewInstaller.install: the option the user picks, the answer to the
\* retry prompt, and whether brew became reachable while a prompt was open
HomebrewInstallerInstall(brew) ==
    { CASE action = "cancel" -> [installed |-> FALSE, brew |-> brew, cancelled |-> TRUE]
        [] action = "skip" -> [installed |-> FALSE, brew |-> brew, cancelled |-> FALSE]
        [] OTHER ->
             IF HomebrewIsAvailable(b1)
               THEN [installed |-> TRUE, brew |-> b1, cancelled |-> FALSE]
             ELSE IF retry # "yes"
               THEN [installed |-> FALSE, brew |-> b1, cancelled |-> FALSE]
             ELSE [installed |-> HomebrewIsAvailable(b2), brew |-> b2, cancelled |-> FALSE]
      : action \in {"installed", "skip", "cancel"}, retry \in Answers,
        b1 \in {brew, TRUE}, b2 \in {brew, TRUE} }

\* what one getPackageManager call leaves behind
Resolved(kind, probes) ==
    [threw |-> FALSE, err |-> "", pm |-> constructed + 1, kind |-> kind, ad |-> FreshAdapter,
     brew |-> brewAvail, constructed |-> constructed + 1, avail |-> orchAvail + probes,
     prompts |-> bootstrapPrompts, cancelled |-> FALSE]
\* a failed resolution that leaves the adapter it constructed in the cache
UnresolvedCached(msg, brew, made, probes, asked) ==
    [threw |-> TRUE, err |-> msg, pm |-> constructed + made, kind |-> "homebrew",
     ad |-> FreshAdapter, brew |-> brew, constructed |-> constructed + made,
     avail |-> orchAvail + probes, prompts |-> bootstrapPrompts + asked, cancelled |-> FALSE]
Unresolved(msg, brew, made, probes, asked) ==
    [threw |-> TRUE, err |-> msg, pm |-> packageManager, kind |-> adKind, ad |-> ad,
     brew |-> brew, constructed |-> constructed + made, avail |-> orchAvail + probes,
     prompts |-> bootstrapPrompts + asked, cancelled |-> FALSE]

\* a cache test that never finds the cached adapter
NeverCached == FALSE

\* getPackageManager: the cache test
HasCachedManager == packageManager # 0

\* getPackageManager
getPackageManager ==
    IF HasCachedManager
      THEN {[threw |-> FALSE, err |-> "", pm |-> packageManager, kind |-> adKind, ad |-> ad,
             brew |-> brewAvail, constructed |-> constructed, avail |-> orchAvail,
             prompts |-> bootstrapPrompts, cancelled |-> FALSE]}
    ELSE CASE os = "macos" ->
           IF HomebrewIsAvailable(brewAvail) THEN {Resolved("homebrew", 1)}
           ELSE UNION {
                  IF shouldInstall # "yes"
                    THEN {[Unresolved("Homebrew nao esta disponivel e a instalacao foi cancelada",
                                      brewAvail, 1, 1, 1)
                             EXCEPT !.cancelled = (shouldInstall = "cancel")]}
                    ELSE { IF ~h.installed
                             THEN [Unresolved("Homebrew nao esta disponivel", h.brew, 1, 1, 1)
                                     EXCEPT !.cancelled = h.cancelled]
                           ELSE IF HomebrewIsAvailable(h.brew)
                             THEN [Resolved("homebrew", 2) EXCEPT !.brew = h.brew, !.prompts = @ + 1]
                           ELSE Unresolved("Homebrew nao esta disponivel no PATH", h.brew, 1, 2, 1)
                           : h \in HomebrewInstallerInstall(brewAvail) }
                  : shouldInstall \in Answers }
         [] os = "windows" ->
           IF WinGetIsAvailable THEN {Resolved("winget", 1)}
           ELSE {Unresolved("WinGet nao esta disponivel no sistema", brewAvail, 1, 1, 0)}
         [] OTHER ->
           IF LinuxIsAvailable THEN {Resolved("linux", 1)}
           ELSE {Unresolved("Sistema Linux nao detectado", brewAvail, 1, 1, 0)}

\* checkInstalled with the exit-code test inverted
checkInstalledInverted(c) == executeString(c, TRUE).exitCode # 0

\* checkInstalled: the probe ends with exit code c
checkInstalled(c) == executeString(c, TRUE).exitCode = 0

\* a success result that is flagged as a skip
SuccessOutcomeAsSkipped(i) ==
    [tool |-> i, success |-> TRUE, alreadyInstalled |-> TRUE,
     message |-> "instalado com sucesso", error |-> ""]

\* a failure result that loses the error message
FailureOutcomeNoError(i, msg, errorMessage) ==
    [tool |-> i, success |-> FALSE, alreadyInstalled |-> FALSE,
     message |-> msg, error |-> ""]

\* the three results installTool builds
AlreadyInstalledOutcome(i) ==
    [tool |-> i, success |-> TRUE, alreadyInstalled |-> TRUE,
     message |-> "ja esta instalado", error |-> ""]

SuccessOutcome(i) ==
    [tool |-> i, success |-> TRUE, alreadyInstalled |-> FALSE,
     message |-> "instalado com sucesso", error |-> ""]

FailureOutcome(i, msg, errorMessage) ==
    [tool |-> i, success |-> FALSE, alreadyInstalled |-> FALSE,
     message |-> msg, error |-> errorMessage]

\* a catch clause that rethrows
OnInstallErrorRethrow(i, errorMessage) ==
    [rethrown |-> TRUE,
     level |-> IF tools[i].isGUI THEN "warn" ELSE "error",
     outcome |-> [tool |-> i, success |-> FALSE, alreadyInstalled |-> FALSE,
                  message |-> "Falha ao instalar", error |-> errorMessage]]

\* installTool's catch clause around pm.install
OnInstallError(i, errorMessage) ==
    [rethrown |-> FALSE,
     level |-> IF tools[i].isGUI THEN "warn" ELSE "error",
     outcome |-> FailureOutcome(i, "Falha ao instalar", errorMessage)]

\* a loop that starts every installTool without awaiting the previous one
CanStartUnawaited(i) == pc \notin {"idle", "done"} /\ i <= Len(tools) /\ ~hist[i].started

\* a loop that never takes the next tool
CanStartNever(i) == FALSE

\* installTools' for loop: the next tool is taken when the previous result
\* has been pushed
CanStart(i) == pc = "loop" /\ i = Len(results) + 1 /\ i <= Len(tools)

NoHist ==
    [started |-> FALSE, probe |-> {}, pmCalls |-> 0, resolve |-> "none",
     install |-> "none", cmdExit |-> {}, level |-> "none", pm |-> 0, denied |-> FALSE,
     cancelled |-> FALSE]


\* installTools' closing line: results.filter(r => r.success).length installed,
\* results.filter(r => r.alreadyInstalled).length already installed,
\* results.filter(r => !r.success).length failed
installToolsTotals(rs) ==
    [successful |-> Cardinality({k \in 1..Len(rs) : rs[k].success}),
     skipped |-> Cardinality({k \in 1..Len(rs) : rs[k].alreadyInstalled}),
     failed |-> Cardinality({k \in 1..Len(rs) : ~rs[k].success})]

\* ------------------------------------------------------------------- the batch
NoOutcome == FailureOutcome(0, "", "")

\* the process starts: no keep-alive, nothing asked yet
NoSession(c) ==
    [cached |-> c, prompts |-> 0, validations |-> 0, denials |-> 0, keepAliveStop |-> {},
     timers |-> {}, started |-> 0, cleared |-> <<>>, listeners |-> 0, ticks |-> 0,
     tickFails |-> 0]

InitWorld ==
    /\ os \in OSes
    /\ brewAvail \in BOOLEAN
    /\ wingetAvail \in {w \in BOOLEAN : w => os = "windows"}
    /\ aptAvail \in {w \in BOOLEAN : w => os = "linux"}
    /\ isRoot \in {r \in BOOLEAN : r => os = "linux"}
    /\ sess \in {NoSession(c) : c \in {w \in BOOLEAN : w => os = "linux" /\ ~isRoot}}
    /\ procPath = <<"/usr/local/bin", "/usr/bin">>

\* main before selectToolsFromCategories is called
NoSelection ==
    [categories |-> <<>>, next |-> 0, selectedToolIds |-> <<>>, cancelled |-> FALSE,
     cancelAt |-> 0, prompts |-> 0]

\* a batch reads brewAvail on macOS only, so one value of it is kept elsewhere
Init ==
    /\ InitWorld
    /\ store = NoStore
    /\ run = NoRun
    /\ brewAvail => os = "macos"
    /\ tools \in UNION {[1..n -> Catalog] : n \in 0..MaxTools}
    /\ cwd = "/"
    /\ withOptions = <<>>
    /\ selection = NoSelection
    /\ pc = "idle"
    /\ cur = 0
    /\ active = {}
    /\ pending = NoOutcome
    /\ results = <<>>
    /\ escaped = FALSE
    /\ packageManager = 0
    /\ constructed = 0
    /\ orchAvail = 0
    /\ bootstrapPrompts = 0
    /\ hist = [i \in 1..Len(tools) |-> NoHist]
    /\ adKind = "none"
    /\ ad = FreshAdapter
    /\ calls = 0

\* installTools that resolves the package manager before the first probe
InstallToolsEager ==
    /\ pc = "idle"
    /\ pc' = "loop"
    /\ results' = <<>>
    /\ \E o \in getPackageManager :
         /\ packageManager' = o.pm
         /\ adKind' = o.kind
         /\ ad' = o.ad
         /\ brewAvail' = o.brew
         /\ constructed' = o.constructed
         /\ orchAvail' = o.avail
         /\ bootstrapPrompts' = o.prompts
    /\ UNCHANGED <<selection, cwd, withOptions, run, store, os, tools, cur, active, pending, escaped, hist, procPath, wingetAvail,
                   aptAvail, isRoot, sess, calls>>

\* installTools is called
InstallTools ==
    /\ pc = "idle"
    /\ pc' = "loop"
    /\ results' = <<>>
    /\ UNCHANGED <<selection, cwd, withOptions, run, store, os, tools, cur, active, pending, escaped, packageManager, constructed,
                   orchAvail, bootstrapPrompts, hist, procPath, brewAvail, wingetAvail,
                   aptAvail, isRoot, sess, adKind, ad, calls>>

\* installTool(tool) is called and starts the idempotency probe
StartTool(i) ==
    /\ i \in 1..Len(tools)
    /\ CanStart(i)
    /\ pc' = "check"
    /\ cur' = i
    /\ active' = active \cup {i}
    /\ hist' = [hist EXCEPT ![i].started = TRUE]
    /\ UNCHANGED <<selection, cwd, withOptions, run, store, os, tools, pending, results, escaped, packageManager, constructed,
                   orchAvail, bootstrapPrompts, procPath, brewAvail, wingetAvail, aptAvail,
                   isRoot, sess, adKind, ad, calls>>

\* the probe ends: installTool returns at once for an installed tool
ProbeDone ==
    /\ pc = "check"
    /\ \E c \in ExitCodes :
         /\ IF checkInstalled(c)
              THEN /\ pending' = AlreadyInstalledOutcome(cur)
                   /\ pc' = "record"
                   /\ hist' = [hist EXCEPT ![cur].probe = {c}, ![cur].level = "success"]
              ELSE /\ pending' = pending
                   /\ pc' = "resolve"
                   /\ hist' = [hist EXCEPT ![cur].probe = {c}]
    /\ UNCHANGED <<selection, cwd, withOptions, run, store, os, tools, cur, active, results, escaped, packageManager, constructed,
                   orchAvail, bootstrapPrompts, procPath, brewAvail, wingetAvail, aptAvail,
                   isRoot, sess, adKind, ad, calls>>

\* installTool resolves the package manager
Resolve ==
    /\ pc = "resolve"
    /\ \E o \in getPackageManager :
         /\ packageManager' = o.pm
         /\ adKind' = o.kind
         /\ ad' = o.ad
         /\ brewAvail' = o.brew
         /\ constructed' = o.constructed
         /\ orchAvail' = o.avail
         /\ bootstrapPrompts' = o.prompts
         /\ IF o.threw
              THEN /\ pending' = FailureOutcome(cur, "Nao foi possivel instalar", o.err)
                   /\ pc' = "record"
                   /\ hist' = [hist EXCEPT ![cur].pmCalls = @ + 1, ![cur].resolve = "threw",
                                           ![cur].cancelled = o.cancelled]
              ELSE /\ pending' = pending
                   /\ pc' = "install"
                   /\ hist' = [hist EXCEPT ![cur].pmCalls = @ + 1, ![cur].resolve = "ok",
                                           ![cur].level = "step"]
    /\ UNCHANGED <<selection, cwd, withOptions, run, store, os, tools, cur, active, results, escaped, procPath, wingetAvail, aptAvail,
                   isRoot, sess, calls>>

\* installTool calls pm.install and builds the result
Install ==
    /\ pc = "install"
    /\ \E o \in AdapterInstall(adKind, tools[cur], ad, sess) :
         /\ ad' = o.ad
         /\ sess' = o.sess
         /\ IF ~o.threw
              THEN /\ procPath' = refreshPathAfterInstall(procPath)
                   /\ pending' = SuccessOutcome(cur)
                   /\ pc' = "record"
                   /\ escaped' = escaped
                   /\ hist' = [hist EXCEPT ![cur].install = "returned", ![cur].pm = packageManager,
                                           ![cur].cmdExit = o.cmdExit, ![cur].level = "success",
                                           ![cur].denied = o.sess.denials > sess.denials]
              ELSE LET h == OnInstallError(cur, o.err) IN
                   /\ procPath' = procPath
                   /\ pending' = h.outcome
                   /\ pc' = IF h.rethrown THEN "aborted" ELSE "record"
                   /\ escaped' = h.rethrown
                   /\ hist' = [hist EXCEPT ![cur].install = "threw", ![cur].pm = packageManager,
                                           ![cur].cmdExit = o.cmdExit, ![cur].level = h.level,
                                           ![cur].denied = o.sess.denials > sess.denials]
    /\ UNCHANGED <<selection, cwd, withOptions, run, store, os, tools, cur, active, results, packageManager, constructed, orchAvail,
                   bootstrapPrompts, brewAvail, wingetAvail, aptAvail, isRoot, adKind, calls>>

\* results.push(result)
Record ==
    /\ pc = "record"
    /\ results' = Append(results, pending)
    /\ active' = active \ {cur}
    /\ pc' = "loop"
    /\ UNCHANGED <<selection, cwd, withOptions, run, store, os, tools, cur, pending, escaped, packageManager, constructed, orchAvail,
                   bootstrapPrompts, hist, procPath, brewAvail, wingetAvail, aptAvail, isRoot,
                   sess, adKind, ad, calls>>

\* the loop is over: the totals are logged and results returned
Report ==
    /\ pc = "loop"
    /\ Len(results) >= Len(tools)
    /\ pc' = "done"
    /\ UNCHANGED <<selection, cwd, withOptions, run, store, os, tools, cur, active, pending, results, escaped, packageManager,
                   constructed, orchAvail, bootstrapPrompts, hist, procPath, brewAvail,
                   wingetAvail, aptAvail, isRoot, sess, adKind, ad, calls>>

\* the keep-alive interval fires: `sudo -v` refreshes the credential cache
\* when it is warm and fails otherwise or for a transient reason
KeepAliveTick ==
    /\ pc # "exited"
    /\ sess.timers # {}
    /\ sess.ticks < MaxTicks
    /\ \E c \in IF sess.cached THEN ExitCodes ELSE ExitCodes \ {0} :
         sess' = keepAliveTick(sess, c)
    /\ UNCHANGED <<selection, cwd, withOptions, run, store, os, tools, pc, cur, active, pending, results, escaped, packageManager,
                   constructed, orchAvail, bootstrapPrompts, hist, procPath, brewAvail,
                   wingetAvail, aptAvail, isRoot, adKind, ad, calls>>

\* sudo's credential cache times out while nothing refreshes it
SudoCacheExpires ==
    /\ pc \in {"loop", "check", "resolve", "install", "record"}
    /\ sess.cached
    /\ sess.timers = {}
    /\ sess' = [sess EXCEPT !.cached = FALSE]
    /\ UNCHANGED <<selection, cwd, withOptions, run, store, os, tools, pc, cur, active, pending, results, escaped, packageManager,
                   constructed, orchAvail, bootstrapPrompts, hist, procPath, brewAvail,
                   wingetAvail, aptAvail, isRoot, adKind, ad, calls>>

\* the process exits: the "exit" listeners run
ProcessExit ==
    /\ pc \in {"done", "sudo"}
    /\ pc' = "exited"
    /\ sess' = emitExit(sess.listeners, sess)
    /\ UNCHANGED <<selection, cwd, withOptions, run, store, os, tools, cur, active, pending, results, escaped, packageManager,
                   constructed, orchAvail, bootstrapPrompts, hist, procPath, brewAvail,
                   wingetAvail, aptAvail, isRoot, adKind, ad, calls>>

Next ==
    \/ InstallTools
    \/ \E i \in 1..MaxTools + 1 : StartTool(i)
    \/ ProbeDone
    \/ Resolve
    \/ Install
    \/ Record
    \/ Report
    \/ KeepAliveTick
    \/ SudoCacheExpires
    \/ ProcessExit

Spec == Init /\ [][Next]_vars

\* Every await of the batch completes: subprocesses exit or time out and
\* prompts are answered, so a step of installTools that can be taken is taken.
SpecFair ==
    Spec /\ WF_vars(InstallTools \/ (\E i \in 1..MaxTools + 1 : StartTool(i)) \/ ProbeDone
                      \/ Resolve \/ Install \/ Record \/ Report)

\* ------------------------------------------------ one adapter, called directly
AdapterKinds == {"homebrew", "winget", "apt", "linux"}

InitAdapter ==
    /\ InitWorld
    /\ store = NoStore
    /\ run = NoRun
    /\ adKind \in AdapterKinds
    /\ ad = FreshAdapter
    /\ calls = 0
    /\ tools = <<>>
    /\ cwd = "/"
    /\ withOptions = <<>>
    /\ selection = NoSelection
    /\ pc = "adapter"
    /\ cur = 0
    /\ active = {}
    /\ pending = NoOutcome
    /\ results = <<>>
    /\ escaped = FALSE
    /\ packageManager = 1
    /\ constructed = 1
    /\ orchAvail = 0
    /\ bootstrapPrompts = 0
    /\ hist = <<>>

\* update() is called on the adapter
CallUpdate ==
    /\ pc = "adapter"
    /\ calls < MaxCalls
    /\ calls' = calls + 1
    /\ \E o \in AdapterUpdate(adKind, ad, sess) :
         /\ ad' = o.ad
         /\ sess' = o.sess
    /\ UNCHANGED <<selection, cwd, withOptions, run, store, os, tools, pc, cur, active, pending, results, escaped, packageManager,
                   constructed, orchAvail, bootstrapPrompts, hist, procPath, brewAvail,
                   wingetAvail, aptAvail, isRoot, adKind>>

\* what the last install call did: whether the tool's command goes to apt,
\* whether it was run, whether the process then held elevation, and the
\* index refreshes the instance has run so far
InstallRecord(tool, o) ==
    [op |-> "install",
     apt |-> /\ getInstallCommand(tool, os) # NoCmd
             /\ adKind = "apt" \/ (adKind = "linux"
                                    /\ detectInstallType(getInstallCommand(tool, os)) = "apt"),
     script |-> /\ adKind = "linux" /\ os = "linux"
                /\ detectInstallType(getInstallCommand(tool, os)) \in {"curl", "wget"},
     ran |-> o.cmdExit # {}, cmdExit |-> o.cmdExit, threw |-> o.threw, probe |-> o.probe,
     elevated |-> isAdmin \/ isSudoCached(o.sess),
     refreshRuns |-> o.ad.refreshRuns,
     cmd |-> getInstallCommand(tool, os), interactive |-> o.interactive]

\* install(tool) is called on the adapter
CallInstall(tool) ==
    /\ pc = "adapter"
    /\ calls < MaxCalls
    /\ calls' = calls + 1
    /\ \E o \in AdapterInstall(adKind, tool, ad, sess) :
         /\ ad' = o.ad
         /\ sess' = o.sess
         /\ hist' = <<InstallRecord(tool, o)>>
    /\ UNCHANGED <<selection, cwd, withOptions, run, store, os, tools, pc, cur, active, pending, results, escaped, packageManager,
                   constructed, orchAvail, bootstrapPrompts, procPath, brewAvail,
                   wingetAvail, aptAvail, isRoot, adKind>>

\* The tools install is called with: the catalogue's, and tools whose Linux
\* command holds any one or two of the substrings detectInstallType looks for
AdapterTools ==
    LET markers == {"apt-get install", "apt install", "snap install", "flatpak install",
                    "curl", "wget", "sudo"}
    IN Catalog \cup {cursorTool}
         \cup { [cursorTool EXCEPT !.installCommands.linux = c] :
                  c \in {m \in SUBSET markers : Cardinality(m) \in {1, 2}} }

NextAdapter ==
    \/ CallUpdate
    \/ \E tool \in AdapterTools : CallInstall(tool)

SpecAdapter == InitAdapter /\ [][NextAdapter]_vars


\* ------------------------------------- the privilege session, called directly
\* what one call of SudoExecutor did, from the session before (s0) and after (s1)
CallRecord(op, ok, answer, code, ran, sudo, s0, s1) ==
    [op |-> op, admin |-> isAdmin, warm |-> isSudoCached(s0), ok |-> ok,
     answer |-> answer, code |-> code, ran |-> ran, sudo |-> sudo,
     prompts |-> s1.prompts - s0.prompts,
     dialogs |-> s1.validations - s0.validations,
     newTimers |-> s1.started - s0.started]

InitSudo ==
    /\ os \in OSes
    /\ store = NoStore
    /\ run = NoRun
    /\ isRoot \in BOOLEAN
    /\ sess \in {NoSession(c) : c \in {w \in BOOLEAN : w => os # "windows"}}
    /\ brewAvail = FALSE
    /\ wingetAvail = FALSE
    /\ aptAvail = FALSE
    /\ procPath = <<"/usr/local/bin", "/usr/bin">>
    /\ adKind = "none"
    /\ ad = FreshAdapter
    /\ calls = 0
    /\ tools = <<>>
    /\ cwd = "/"
    /\ withOptions = <<>>
    /\ selection = NoSelection
    /\ pc = "sudo"
    /\ cur = 0
    /\ active = {}
    /\ pending = NoOutcome
    /\ results = <<>>
    /\ escaped = FALSE
    /\ packageManager = 0
    /\ constructed = 0
    /\ orchAvail = 0
    /\ bootstrapPrompts = 0
    /\ hist = <<>>

\* a caller awaits SudoExecutor.requestPrivileges()
CallRequestPrivileges ==
    /\ pc = "sudo"
    /\ calls < MaxCalls
    /\ calls' = calls + 1
    /\ \E r \in requestPrivileges(sess) :
         /\ sess' = r.sess
         /\ hist' = <<CallRecord("requestPrivileges", r.ok, r.answer, r.code, FALSE, FALSE,
                                 sess, r.sess)>>
    /\ UNCHANGED <<selection, cwd, withOptions, run, store, os, tools, pc, cur, active, pending, results, escaped, packageManager,
                   constructed, orchAvail, bootstrapPrompts, procPath, brewAvail,
                   wingetAvail, aptAvail, isRoot, adKind, ad>>

\* a caller awaits SudoExecutor.exec(command)
CallExec ==
    /\ pc = "sudo"
    /\ calls < MaxCalls
    /\ calls' = calls + 1
    /\ \E e \in SudoExec(sess) :
         /\ sess' = e.sess
         /\ hist' = <<CallRecord("exec", e.success, "none", {e.exitCode}, e.ran, e.sudo,
                                 sess, e.sess)>>
    /\ UNCHANGED <<selection, cwd, withOptions, run, store, os, tools, pc, cur, active, pending, results, escaped, packageManager,
                   constructed, orchAvail, bootstrapPrompts, procPath, brewAvail,
                   wingetAvail, aptAvail, isRoot, adKind, ad>>

\* a caller calls the public SudoExecutor.stopKeepAlive()
CallStopKeepAlive ==
    /\ pc = "sudo"
    /\ calls < MaxCalls
    /\ calls' = calls + 1
    /\ sess' = stopKeepAlive(sess)
    /\ hist' = <<CallRecord("stopKeepAlive", TRUE, "none", {}, FALSE, FALSE, sess, sess)>>
    /\ UNCHANGED <<selection, cwd, withOptions, run, store, os, tools, pc, cur, active, pending, results, escaped, packageManager,
                   constructed, orchAvail, bootstrapPrompts, procPath, brewAvail,
                   wingetAvail, aptAvail, isRoot, adKind, ad>>

\* sudo's credential cache is lost between two calls (timeout, sudo -k)
SudoCacheInvalidated ==
    /\ pc = "sudo"
    /\ sess.cached
    /\ sess' = [sess EXCEPT !.cached = FALSE]
    /\ UNCHANGED <<selection, cwd, withOptions, run, store, os, tools, pc, cur, active, pending, results, escaped, packageManager,
                   constructed, orchAvail, bootstrapPrompts, hist, procPath, brewAvail,
                   wingetAvail, aptAvail, isRoot, adKind, ad, calls>>

\* the calls the repository makes: requestPrivileges and exec, until exit
NextSudo ==
    \/ CallRequestPrivileges
    \/ CallExec
    \/ KeepAliveTick
    \/ SudoCacheInvalidated
    \/ ProcessExit

SpecSudo == InitSudo /\ [][NextSudo]_vars

\* any caller of the class's public methods
NextSudoApi ==
    \/ NextSudo
    \/ CallStopKeepAlive

SpecSudoApi == InitSudo /\ [][NextSudoApi]_vars


\* --------------------------------- the environment manager, called directly
\* the directories the calls are made with: on Windows two spellings of one
\* directory and another directory, on Unix a directory and one whose name
\* contains it
EnvPaths ==
    IF os = "windows" THEN {<<"/", "a">>, <<"\\", "A">>, <<"/", "b">>}
    ELSE {<<"/", "a">>, <<"/", "a", "b">>}

Shells == {"zsh", "bash", "fish", "unknown"}

\* what an rc file may hold before the first call
RcFiles ==
    {<<>>} \cup {<<[kind |-> k, name |-> IF k = "other" THEN "" ELSE "PATH", text |-> q]>>
                 : k \in {"export", "other"}, q \in EnvPaths}

\* what one call of the manager did
EnvRecord(op, path, r, st) ==
    [op |-> op, path |-> path, name |-> "PATH", success |-> r.success,
     restart |-> r.requiresRestart, write |-> r.write,
     was |-> ManagerIsInPath(path, procPath),
     inPath |-> ManagerIsInPath(path, r.env),
     before |-> Persisted(path, st), after |-> Persisted(path, r.store),
     lines |-> <<>>, tried |-> r.tried, same |-> (r.env = procPath /\ r.store = st)]

\* what one setVariable call did
VarRecord(name, value, r, st) ==
    [op |-> "setVariable", path |-> value, name |-> name, success |-> r.success,
     restart |-> r.requiresRestart, write |-> r.write,
     was |-> st.env[name] = value,
     inPath |-> r.store.env[name] = value,
     before |-> Len(AssignedValues(name, st)), after |-> Len(AssignedValues(name, r.store)),
     lines |-> AssignedValues(name, r.store), tried |-> r.tried,
     same |-> (r.env = procPath /\ r.store = st)]

\* the values setVariable is called with; on Windows one is longer than the
\* setx limit
VarValues ==
    {<<"a">>, <<"b">>} \cup (IF os = "windows" THEN {<<"~", "a", "a", "a">>} ELSE {})

\* the last two calls
Remember(h, rec) == IF Len(h) < 2 THEN Append(h, rec) ELSE <<h[2], rec>>

InitEnv ==
    /\ os \in OSes
    /\ run = NoRun
    /\ store \in IF os = "windows"
                   THEN {[NoStore EXCEPT !.shell = "cmd", !.userPath = u]
                         : u \in {<<>>, <<<<"~">>>>} \cup {<<q>> : q \in EnvPaths}}
                   ELSE {st \in {[NoStore EXCEPT !.shell = sh, !.rcExists = x, !.rc = rc]
                                 : sh \in Shells, x \in BOOLEAN, rc \in RcFiles}
                         : st.rc # <<>> => st.rcExists}
    /\ procPath \in {<<>>} \cup {<<q>> : q \in EnvPaths}
    /\ isRoot = FALSE
    /\ sess = NoSession(FALSE)
    /\ brewAvail = FALSE
    /\ wingetAvail = FALSE
    /\ aptAvail = FALSE
    /\ adKind = "none"
    /\ ad = FreshAdapter
    /\ calls = 0
    /\ tools = <<>>
    /\ cwd = "/"
    /\ withOptions = <<>>
    /\ selection = NoSelection
    /\ pc = "env"
    /\ cur = 0
    /\ active = {}
    /\ pending = NoOutcome
    /\ results = <<>>
    /\ escaped = FALSE
    /\ packageManager = 0
    /\ constructed = 0
    /\ orchAvail = 0
    /\ bootstrapPrompts = 0
    /\ hist = <<>>

\* a caller awaits addToPath(path)
CallAddToPath(path) ==
    /\ pc = "env"
    /\ calls < MaxCalls
    /\ calls' = calls + 1
    /\ \E r \in addToPath(path, procPath, store) :
         /\ procPath' = r.env
         /\ store' = r.store
         /\ hist' = Remember(hist, EnvRecord("addToPath", path, r, store))
    /\ UNCHANGED <<selection, cwd, withOptions, run, os, tools, pc, cur, active, pending, results, escaped, packageManager,
                   constructed, orchAvail, bootstrapPrompts, brewAvail, wingetAvail,
                   aptAvail, isRoot, sess, adKind, ad>>

\* a caller calls refreshProcessPath(path)
CallRefreshProcessPath(path) ==
    /\ pc = "env"
    /\ calls < MaxCalls
    /\ calls' = calls + 1
    /\ LET r == EnvResult(TRUE, FALSE, refreshProcessPath(path, procPath), store) IN
         /\ procPath' = r.env
         /\ hist' = Remember(hist, EnvRecord("refreshProcessPath", path, r, store))
    /\ UNCHANGED <<selection, cwd, withOptions, run, store, os, tools, pc, cur, active, pending, results, escaped,
                   packageManager, constructed, orchAvail, bootstrapPrompts, brewAvail,
                   wingetAvail, aptAvail, isRoot, sess, adKind, ad>>

\* a caller awaits setVariable(name, value)
CallSetVariable(name, value) ==
    /\ pc = "env"
    /\ calls < MaxCalls
    /\ calls' = calls + 1
    /\ \E r \in setVariable(name, value, procPath, store) :
         /\ store' = r.store
         /\ hist' = Remember(hist, VarRecord(name, value, r, store))
    /\ UNCHANGED <<selection, cwd, withOptions, run, os, tools, pc, cur, active, pending, results, escaped, packageManager,
                   constructed, orchAvail, bootstrapPrompts, procPath, brewAvail, wingetAvail,
                   aptAvail, isRoot, sess, adKind, ad>>

NextEnv ==
    \/ \E path \in EnvPaths : CallAddToPath(path)
    \/ \E path \in EnvPaths : CallRefreshProcessPath(path)
    \/ \E name \in VarNames, value \in VarValues : CallSetVariable(name, value)

SpecEnv == InitEnv /\ [][NextEnv]_vars

\* -------------------------------------------- the process executor called directly
\* The caller awaits executeInteractive, one run at a time; time passes in steps of the default
\* timeout, and the timer callback, the close event and the error event are
\* delivered in any order the event loop allows.
InitShell ==
    /\ InitWorld
    /\ store = NoStore
    /\ run = NoRun
    /\ adKind = "none"
    /\ ad = FreshAdapter
    /\ calls = 0
    /\ tools = <<>>
    /\ cwd = "/"
    /\ withOptions = <<>>
    /\ selection = NoSelection
    /\ pc = "shell"
    /\ cur = 0
    /\ active = {}
    /\ pending = NoOutcome
    /\ results = <<>>
    /\ escaped = FALSE
    /\ packageManager = 0
    /\ constructed = 0
    /\ orchAvail = 0
    /\ bootstrapPrompts = 0
    /\ hist = <<>>

\* executeInteractive(command, options) is called once the previous run is over
CallExecuteInteractive(option) ==
    /\ pc = "shell"
    /\ calls < MaxCalls
    /\ run.promise # "pending" /\ run.child # "running"
    /\ calls' = calls + 1
    /\ run' = spawnInteractive(option)
    /\ UNCHANGED <<selection, cwd, withOptions, store, os, tools, pc, cur, active, pending, results, escaped, packageManager,
                   constructed, orchAvail, bootstrapPrompts, hist, procPath, brewAvail,
                   wingetAvail, aptAvail, isRoot, sess, adKind, ad>>

\* the wall clock advances while the timer is armed
TimePasses ==
    /\ pc = "shell"
    /\ run.timer = "armed"
    /\ run.clock < run.timeout
    /\ run' = [run EXCEPT !.clock = @ + DefaultTimeout]
    /\ UNCHANGED <<selection, cwd, withOptions, store, os, tools, pc, cur, active, pending, results, escaped, packageManager,
                   constructed, orchAvail, bootstrapPrompts, hist, procPath, brewAvail,
                   wingetAvail, aptAvail, isRoot, sess, adKind, ad, calls>>

\* the event loop runs the timer callback
TimerFires ==
    /\ pc = "shell"
    /\ run.timer = "armed"
    /\ run.clock >= run.timeout
    /\ run' = onTimeout(run)
    /\ UNCHANGED <<selection, cwd, withOptions, store, os, tools, pc, cur, active, pending, results, escaped, packageManager,
                   constructed, orchAvail, bootstrapPrompts, hist, procPath, brewAvail,
                   wingetAvail, aptAvail, isRoot, sess, adKind, ad, calls>>

\* the child's close event is delivered (after an error event too)
ChildCloses(code) ==
    /\ pc = "shell"
    /\ run.child \in {"running", "errored"}
    /\ run' = onClose(run, code)
    /\ UNCHANGED <<selection, cwd, withOptions, store, os, tools, pc, cur, active, pending, results, escaped, packageManager,
                   constructed, orchAvail, bootstrapPrompts, hist, procPath, brewAvail,
                   wingetAvail, aptAvail, isRoot, sess, adKind, ad, calls>>

\* the child's error event is delivered
ChildErrors ==
    /\ pc = "shell"
    /\ run.child = "running"
    /\ run' = onError(run)
    /\ UNCHANGED <<selection, cwd, withOptions, store, os, tools, pc, cur, active, pending, results, escaped, packageManager,
                   constructed, orchAvail, bootstrapPrompts, hist, procPath, brewAvail,
                   wingetAvail, aptAvail, isRoot, sess, adKind, ad, calls>>

NextInteractive ==
    \/ \E option \in {{}, {HomebrewTimeout}} : CallExecuteInteractive(option)
    \/ TimePasses
    \/ TimerFires
    \/ \E code \in {{}} \cup {{c} : c \in ExitCodes} : ChildCloses(code)
    \/ ChildErrors

SpecInteractive == InitShell /\ [][NextInteractive]_vars

\* what a captured command may write
Outputs == {<<>>, <<"o">>, <<" ", "o", " ">>}

\* a caller awaits executeString(command, {silent}); hist keeps the call
CallExecuteString(command, code, stdout, stderr, silent) ==
    /\ pc = "shell"
    /\ calls < MaxCalls
    /\ calls' = calls + 1
    /\ hist' = <<[op |-> "executeString", command |-> command, code |-> code,
                  stdout |-> stdout, stderr |-> stderr, silent |-> silent,
                  result |-> executeStringCaptured(command, code, stdout, stderr, silent)]>>
    /\ UNCHANGED <<selection, cwd, withOptions, run, store, os, tools, pc, cur, active, pending, results, escaped,
                   packageManager, constructed, orchAvail, bootstrapPrompts, procPath,
                   brewAvail, wingetAvail, aptAvail, isRoot, sess, adKind, ad>>

NextShell ==
    \E command \in {{"which"}, {"brew update"}}, code \in {{}} \cup {{c} : c \in ExitCodes},
       stdout \in Outputs, stderr \in Outputs, silent \in BOOLEAN :
          CallExecuteString(command, code, stdout, stderr, silent)

SpecShell == InitShell /\ [][NextShell]_vars


\* ---------------------------------------------------------------------- claims
\* C1: a tool whose checkCommand exits 0 never has the package manager
\* resolved or invoked, and its outcome is alreadyInstalled with success.
C1_Idempotent ==
    \A i \in 1..Len(tools) :
        hist[i].probe = {0} =>
            /\ hist[i].pmCalls = 0
            /\ hist[i].resolve = "none"
            /\ hist[i].install = "none"
            /\ hist[i].cmdExit = {}
            /\ (i <= Len(results) => results[i].alreadyInstalled /\ results[i].success)

C1_Witness ==
    \E i \in 1..Len(results) : hist[i].probe = {0} /\ results[i].tool = i

\* C2: an install command that exits with a non-zero code makes the tool's
\* outcome a failure, for every adapter and install mechanism.
C2_NonZeroExitFails ==
    \A k \in 1..Len(results) :
        (\E c \in hist[k].cmdExit : c # 0) => ~results[k].success

\* C3: a GUI tool whose install command fails gets a failure outcome logged
\* at warning level, and the later tools of the batch are still processed.
C3_GuiDegradation ==
    \A k \in 1..Len(results) :
        (tools[k].isGUI /\ \E c \in hist[k].cmdExit : c # 0) =>
            /\ ~results[k].success
            /\ ~results[k].alreadyInstalled
            /\ hist[k].level = "warn"
            /\ (pc = "done" => \A j \in k..Len(tools) : hist[j].probe # {})

\* C4: no exception leaves installTools; a tool whose manager resolution or
\* install threw gets an outcome with success=false and a non-empty error,
\* and the loop goes on to the end of the list.
C4_NeverThrows ==
    /\ ~escaped
    /\ pc # "aborted"
    /\ \A k \in 1..Len(results) :
          (hist[k].resolve = "threw" \/ hist[k].install = "threw") =>
              ~results[k].success /\ results[k].error # ""
    /\ (pc = "done" => \A i \in 1..Len(tools) : hist[i].probe # {} /\ i <= Len(results))

C4_Witness ==
    \E k \in 1..Len(results) :
        /\ hist[k].install = "threw"
        /\ k < Len(results)
        /\ pc = "done"

C6_OutcomeShape ==
    LET produced == {results[k] : k \in 1..Len(results)}
                    \cup (IF pc = "record" THEN {pending} ELSE {})
        already(r) == r.success /\ r.alreadyInstalled
        succeeded(r) == r.success /\ ~r.alreadyInstalled /\ r.error = ""
        failed(r) == ~r.success /\ ~r.alreadyInstalled /\ r.error # ""
    IN \A r \in produced :
          /\ r.alreadyInstalled => r.success
          /\ already(r) \/ succeeded(r) \/ failed(r)
          /\ ~(already(r) /\ succeeded(r))
          /\ ~(already(r) /\ failed(r))
          /\ ~(succeeded(r) /\ failed(r))

C6_Witness ==
    /\ \E k \in 1..Len(results) : ~results[k].success
    /\ \E k \in 1..Len(results) : results[k].alreadyInstalled

\* C7: probe non-zero, manager resolved, adapter install returned without
\* error: the outcome is success=true, alreadyInstalled=false.
C7_InstallSucceeds ==
    \A k \in 1..Len(results) :
        (/\ hist[k].probe # {}
         /\ 0 \notin hist[k].probe
         /\ hist[k].resolve = "ok"
         /\ hist[k].install = "returned") =>
            results[k].success /\ ~results[k].alreadyInstalled

C7_Witness ==
    /\ os = "macos"
    /\ adKind = "homebrew"
    /\ \E k \in 1..Len(results) :
          hist[k].probe = {1} /\ hist[k].install = "returned" /\ hist[k].cmdExit = {0}

\* C8: the probe of a tool ends before any manager resolution for it, and as
\* long as every probed tool was found installed no adapter is constructed or
\* availability-probed and no bootstrap or consent prompt is shown.
C8_CheckFirst ==
    /\ \A i \in 1..Len(tools) : hist[i].pmCalls > 0 => hist[i].probe # {}
    /\ (\A i \in 1..Len(tools) : hist[i].probe \subseteq {0}) =>
          /\ packageManager = 0
          /\ constructed = 0
          /\ orchAvail = 0
          /\ bootstrapPrompts = 0
          /\ sess.prompts = 0

C8_Witness ==
    pc = "done" /\ Len(tools) >= 2 /\ \A i \in 1..Len(tools) : hist[i].probe = {0}

\* C9: once getPackageManager has cached an adapter, the cached instance never
\* changes, no further adapter is constructed or availability-probed by the
\* orchestrator, and every install of the batch goes to that instance.
C9_OneAdapter ==
    /\ [](\A i \in 1..Len(tools) :
             hist[i].install # "none" => packageManager # 0 /\ hist[i].pm = packageManager)
    /\ [][packageManager # 0 =>
             /\ packageManager' = packageManager
             /\ adKind' = adKind
             /\ constructed' = constructed
             /\ orchAvail' = orchAvail]_vars

C9_Witness ==
    /\ Len(results) >= 2
    /\ hist[1].install # "none"
    /\ hist[2].install # "none"
    /\ hist[1].pm = hist[2].pm
    /\ constructed = 1

\* C10: on one adapter instance the index-refresh command runs at most once,
\* whatever sequence of update() and install() calls is made.
C10_UpdateMemoized == ad.refreshRuns <= 1

\* C11: across the tools of one installTools call the "install Homebrew
\* now?" prompt is shown at most once, and a tool fails for want of the
\* manager only if it was not installed already.
C11_BootstrapOnce ==
    /\ bootstrapPrompts <= 1
    /\ \A k \in 1..Len(results) :
           hist[k].resolve = "threw" => hist[k].probe = {1} /\ ~results[k].success

\* C12: within one batch at most one elevation consent prompt is shown,
\* however many tools need elevation, as long as no elevation request of the
\* batch was refused or failed.
C12_SinglePrompt == sess.denials = 0 => sess.prompts <= 1

C12_Witness ==
    /\ os = "linux"
    /\ Len(results) >= 2
    /\ \A k \in 1..2 : /\ "sudo" \in getInstallCommand(tools[k], os)
                        /\ hist[k].install = "returned"
    /\ sess.prompts = 1
    /\ sess.denials = 0

\* C13: when the process is admin/root, or on Unix the sudo credential cache
\* is warm, requestPrivileges returns true, shows no consent prompt and
\* spawns no credential dialog.
C13_NoPromptWhenElevated ==
    \A k \in 1..Len(hist) :
        (hist[k].op = "requestPrivileges" /\ (hist[k].admin \/ hist[k].warm)) =>
            /\ hist[k].ok
            /\ hist[k].prompts = 0
            /\ hist[k].dialogs = 0

C13_Witness ==
    /\ hist # <<>>
    /\ hist[1].op = "requestPrivileges"
    /\ hist[1].warm
    /\ ~hist[1].admin
    /\ hist[1].ok
    /\ calls >= 2

\* C14: on Unix a request the user consents to and whose `sudo -v` succeeds
\* returns true and leaves a keep-alive interval scheduled; a declined,
\* cancelled or failed one returns false and starts none. A scheduled
\* keep-alive stays the same one until the process exits.
C14_KeepAliveUntilExit ==
    /\ [](\A k \in 1..Len(hist) :
            (hist[k].op = "requestPrivileges" /\ os # "windows" /\ hist[k].prompts = 1) =>
                IF hist[k].answer = "yes" /\ hist[k].code = {0}
                  THEN hist[k].ok /\ (pc # "exited" => sess.timers # {})
                  ELSE ~hist[k].ok /\ hist[k].newTimers = 0)
    /\ [][(sess.timers # {} /\ pc' # "exited") =>
             (sess'.timers = sess.timers /\ sess'.keepAliveStop = sess.keepAliveStop)]_vars

C14_Witness ==
    /\ hist # <<>>
    /\ hist[1].op = "requestPrivileges"
    /\ hist[1].answer = "yes"
    /\ hist[1].code = {0}
    /\ sess.timers # {}
    /\ sess.ticks > 0

\* C15: at most one keep-alive interval is scheduled in the process, however
\* often elevation is requested and granted.
C15_OneTimer == Cardinality(sess.timers) <= 1

C15_Witness ==
    /\ sess.validations >= 2
    /\ sess.denials = 0
    /\ Cardinality(sess.timers) = 1

\* C16: no interval is cleared twice, and once the process has exited every
\* interval that was started has been cleared and none is scheduled.
C16_ClearedOnce ==
    /\ \A i, j \in 1..Len(sess.cleared) : sess.cleared[i] = sess.cleared[j] => i = j
    /\ pc = "exited" =>
          /\ sess.timers = {}
          /\ {sess.cleared[i] : i \in 1..Len(sess.cleared)} = 1..sess.started

C16_Witness ==
    /\ pc = "exited"
    /\ sess.listeners >= 2
    /\ sess.started >= 2
    /\ Len(sess.cleared) = sess.started

\* C17: a keep-alive tick whose refresh fails leaves the interval scheduled
\* and changes nothing of the batch: position, results, pending outcome,
\* cached adapter, escaped errors and the session's handle stay as they were.
C17_TickSilent ==
    [][sess'.tickFails > sess.tickFails =>
         /\ sess'.timers = sess.timers
         /\ sess'.keepAliveStop = sess.keepAliveStop
         /\ sess'.cached = sess.cached
         /\ sess'.prompts = sess.prompts
         /\ UNCHANGED <<selection, cwd, withOptions, pc, cur, results, pending, escaped, packageManager, ad, hist>>]_vars

C17_Witness ==
    /\ sess.tickFails > 0
    /\ sess.timers # {}
    /\ pc = "check"
    /\ Len(results) >= 1

C19_FailureIsolation ==
    \A i \in 1..Len(results) :
        (hist[i].resolve = "threw" \/ hist[i].denied) =>
            /\ ~results[i].success
            /\ pc = "done" => Len(results) = Len(tools)
            /\ \A j \in (i + 1)..Len(results) :
                 LET command == getInstallCommand(tools[j], os)
                     elevated == \/ detectInstallType(command) \in {"apt", "snap", "flatpak"}
                                 \/ "sudo" \in command
                 IN
                 /\ hist[j].probe = {0} =>
                       results[j].success /\ results[j].alreadyInstalled
                 /\ (hist[j].probe = {1} /\ os = "linux" /\ command # NoCmd /\ ~elevated) =>
                       hist[j].install # "none" /\ ~hist[j].denied

C19_Witness ==
    /\ pc = "done"
    /\ Len(results) = 2
    /\ hist[1].denied
    /\ "curl" \in getInstallCommand(tools[2], os)
    /\ hist[2].install = "returned"

\* C20: two addToPath(p) calls in a row that both report success, started
\* where the persistence medium holds no entry for p, leave exactly one
\* persisted entry for p, and isInPath(p) is true after the first call and
\* after the second.
C20_AddToPathIdempotent ==
    \A k \in 1..(Len(hist) - 1) :
        (/\ hist[k].op = "addToPath"
         /\ hist[k + 1].op = "addToPath"
         /\ hist[k + 1].path = hist[k].path
         /\ hist[k].success
         /\ hist[k + 1].success
         /\ hist[k].before = 0) =>
            /\ hist[k].inPath
            /\ hist[k + 1].inPath
            /\ hist[k + 1].after = 1


\* C21: addToPath(p) never writes an entry for p into a medium (rc file, user
\* registry PATH) that already holds an entry for p, whatever the live PATH
\* holds, and it reports p as already present (success without a write) only
\* when an entry equal to p is in the medium or on the live PATH.
C21_ChecksMedium ==
    pc = "env" =>
      \A k \in 1..Len(hist) :
        hist[k].op = "addToPath" =>
          /\ hist[k].before > 0 => hist[k].after = hist[k].before
          /\ (hist[k].success /\ hist[k].write = "none") =>
               (hist[k].before > 0 \/ hist[k].was)


\* C22: on Windows a call of addToPath or setVariable whose resulting value
\* is longer than 1024 characters returns success=false, writes nothing and
\* leaves the registry, the live PATH and the process environment as they
\* were; no value longer than the ceiling is ever stored.
C22_SetxCeiling ==
    (pc = "env" /\ os = "windows") =>
      /\ joinedLength(store.userPath) <= SetxLimit
      /\ \A n \in VarNames : strlen(store.userVars[n]) <= SetxLimit
      /\ \A k \in 1..Len(hist) :
           (hist[k].op \in {"addToPath", "setVariable"} /\ hist[k].tried > SetxLimit) =>
             (~hist[k].success /\ hist[k].write = "none" /\ hist[k].same)

\* an addToPath and a setVariable that were both over the ceiling
C22_Witness ==
    /\ pc = "env" /\ os = "windows" /\ Len(hist) = 2
    /\ hist[1].op = "addToPath" /\ hist[1].tried > SetxLimit /\ ~hist[1].success
    /\ hist[2].op = "setVariable" /\ hist[2].tried > SetxLimit /\ ~hist[2].success

\* C23: when the persistent write of addToPath or setVariable fails, the
\* call reports success=false and the in-process mirror is in effect all the
\* same: the live PATH holds the directory, the process environment holds
\* the variable.
C23_MirrorSurvivesWriteFailure ==
    pc = "env" =>
      \A k \in 1..Len(hist) :
        (hist[k].op \in {"addToPath", "setVariable"} /\ hist[k].write = "failed") =>
          (~hist[k].success /\ hist[k].inPath)

\* C24: setVariable is an update-or-insert: after a successful
\* setVariable(name, v) that follows a successful setVariable(name, u), the
\* medium holds exactly one assignment for name, carrying v, and the process
\* environment holds v, under every shell syntax.
C24_SetVariableUpsert ==
    (pc = "env" /\ Len(hist) = 2) =>
      ((/\ hist[1].op = "setVariable" /\ hist[1].success /\ hist[1].before = 0
        /\ hist[2].op = "setVariable" /\ hist[2].success
        /\ hist[2].name = hist[1].name) =>
         (hist[2].lines = <<hist[2].path>> /\ hist[2].inPath))

\* C25: an install whose failing command's output is classified as
\* already-installed counts as a success: no tool is reported with
\* success=false and the already-installed cause as its error.
C25_AlreadyInstalledIsSuccess ==
    \A k \in 1..Len(results) :
      results[k].error = translateWinGetError("already installed", 1) => results[k].success

\* C26: on a system that has apt, whenever an adapter has run a tool's apt
\* install command, the command ran under elevation and the instance has by
\* then run the index refresh (apt-get update) exactly once.
C26_AptElevatedAfterOneRefresh ==
    (pc = "adapter" /\ hist # <<>> /\ aptAvail) =>
      ((hist[1].op = "install" /\ hist[1].apt /\ hist[1].ran) =>
         (hist[1].elevated /\ hist[1].refreshRuns = 1))

\* C27: a script-based Linux install is never reported on the script's exit
\* alone: every script install that returns has run the tool's check command
\* after the script closed, whatever the script's exit code, and a script
\* that did not finish (timeout, spawn error) raises.
C27_ScriptReprobed ==
    (pc = "adapter" /\ hist # <<>>) =>
      ((hist[1].op = "install" /\ hist[1].script) =>
         /\ ~hist[1].threw => (hist[1].ran /\ hist[1].probe # {})
         /\ hist[1].threw => hist[1].probe = {})

\* a script that exited with zero, then a probe that still fails
C27_Witness ==
    /\ pc = "adapter" /\ hist # <<>>
    /\ hist[1].op = "install" /\ hist[1].script /\ ~hist[1].threw
    /\ hist[1].cmdExit = {0} /\ hist[1].probe = {1}

\* C28: executeInteractive enforces its timeout (300000 ms, or the caller's
\* 600000 ms) against the race of timer and close event.  The timer fires
\* only once the timeout has elapsed; when it fires first, one SIGTERM is sent
\* and the call fails with the timeout error, whatever arrives later; when
\* the child closes (or errors) first, the timer is cancelled, no signal is
\* ever sent and a close returns the exit code; the call is pending exactly
\* as long as the timer is armed, and it settles with one value.
C28_TimeoutRace ==
    (pc = "shell" /\ run.promise # "none") =>
      /\ run.timeout \in {DefaultTimeout, HomebrewTimeout}
      /\ run.promise = "pending" <=> run.timer = "armed"
      /\ run.promise = "pending" => (run.child = "running" /\ run.outcome = {})
      /\ run.promise # "pending" => Cardinality(run.outcome) = 1
      /\ run.signals = (IF run.timer = "fired" THEN 1 ELSE 0)
      /\ run.timer = "fired" =>
            /\ run.clock >= run.timeout
            /\ run.outcome = {[threw |-> TRUE, exitCode |-> TimeoutExitCode,
                               stderr |-> "Timeout"]}
      /\ run.promise = "resolved" =>
            /\ run.timer = "cleared" /\ run.child = "closed"
            /\ \A o \in run.outcome : run.closeCode \in {{o.exitCode}, {}}
      /\ (run.promise = "rejected" /\ run.timer = "cleared") =>
            \A o \in run.outcome : o.exitCode = 1

\* the timer fired first and the child closed afterwards: two handlers have
\* called reject and resolve, the call stays failed with the timeout
C28_Witness ==
    /\ pc = "shell"
    /\ run.timeout = HomebrewTimeout
    /\ run.timer = "fired" /\ run.child = "closed" /\ run.settleCalls = 2
    /\ run.promise = "rejected"

C30_CancelStopsBatch ==
    \A i \in 1..Len(hist) : \A j \in 1..Len(hist) :
        (i < j /\ hist[i].cancelled) => ~hist[j].started

\* C32: the three counts of the batch's report (installed, already
\* installed, failed) partition the batch: they add up to the number of
\* tools, and an already-installed tool is not counted as installed.
C32_TotalsPartition ==
    pc = "done" =>
      LET t == installToolsTotals(results) IN
      /\ t.successful + t.skipped + t.failed = Len(tools)
      /\ \A k \in 1..Len(results) :
            Cardinality({c \in {"successful", "skipped", "failed"} :
                           CASE c = "successful" -> results[k].success
                             [] c = "skipped" -> results[k].alreadyInstalled
                             [] OTHER -> ~results[k].success}) = 1

\* C33: once a tool of the batch has been installed on macOS or Linux, every
\* conventional bin directory of the OS is in the process PATH exactly once;
\* as long as no install has succeeded (tools found installed, failed
\* installs) the process PATH is the one the process started with, and on
\* Windows it never changes.
C33_PathRefreshedOnSuccess ==
      LET installed == \E k \in 1..Len(hist) : hist[k].install = "returned"
          startPath == <<"/usr/local/bin", "/usr/bin">>
      IN
      /\ (installed /\ os # "windows") =>
            \A d \in 1..Len(commonPaths) :
              Cardinality({k \in 1..Len(procPath) : procPath[k] = commonPaths[d]}) = 1
      /\ (~installed \/ os = "windows") => procPath = startPath

\* a Linux batch with one tool found installed and one installed now
C33_Witness ==
    /\ pc = "done" /\ os = "linux" /\ Len(results) = 2
    /\ results[1].alreadyInstalled
    /\ hist[2].install = "returned"
    /\ Len(procPath) = 4

\* C39: refreshProcessPath(p) makes isInPath(p) true, a second
\* refreshProcessPath(p) changes nothing, and the live PATH never holds two
\* entries that isInPath treats as the same path.
C39_RefreshConsistent ==
    pc = "env" =>
      /\ \A k \in 1..Len(hist) : hist[k].op = "refreshProcessPath" => hist[k].inPath
      /\ (/\ Len(hist) = 2 /\ hist[1].op = "refreshProcessPath"
          /\ hist[2].op = "refreshProcessPath" /\ hist[2].path = hist[1].path) => hist[2].same
      /\ \A i \in 1..Len(procPath) : \A j \in 1..Len(procPath) :
            (i # j) => ~ManagerIsInPath(procPath[i], <<procPath[j]>>)

\* C34: when every await completes, installTools eventually returns: the
\* batch reaches its report with one outcome per tool, whatever failed, and
\* it never reports with fewer.
C34_Terminates ==
    /\ <>(pc \in {"done", "exited"} /\ Len(results) = Len(tools))
    /\ [](pc = "done" => Len(results) = Len(tools))

\* a batch of two tools that ended with both installs failed
C34_Witness ==
    /\ pc = "done" /\ Len(tools) = 2 /\ Len(results) = 2
    /\ ~results[1].success /\ ~results[2].success
    /\ hist[1].install = "threw" /\ hist[2].install = "threw"

\* C40: on Unix, as a non-root user with a cold credential cache, an exec
\* whose elevation request is refused (the user declines or cancels, or
\* `sudo -v` fails) returns success false with exit code 1 and runs the
\* command neither with nor without the sudo prefix.
C40_RefusedExecRunsNothing ==
    [][(/\ calls' = calls + 1
        /\ hist'[1].op = "exec"
        /\ os # "windows" /\ ~isAdmin /\ ~isSudoCached(sess)
        /\ sess'.denials > sess.denials)
       => (/\ ~hist'[1].ok
           /\ hist'[1].code = {1}
           /\ ~hist'[1].ran
           /\ ~hist'[1].sudo)]_vars

\* an exec that asked, got "yes", and whose `sudo -v` then failed
C40_Witness ==
    /\ hist # <<>>
    /\ hist[1].op = "exec"
    /\ os # "windows" /\ ~hist[1].admin /\ ~hist[1].warm
    /\ hist[1].prompts = 1 /\ hist[1].dialogs = 1
    /\ ~hist[1].ok /\ ~hist[1].ran

\* C37: the cache goes from null to an adapter only in a resolution that
\* returned, and the adapter cached is the one for the OS whose isAvailable()
\* was true at that moment; a resolution that threw (manager unavailable,
\* bootstrap declined or unsuccessful) leaves the cache null.
C37_CacheOnlyAvailable ==
    [][/\ packageManager' # packageManager =>
             /\ packageManager = 0
             /\ cur \in 1..Len(tools)
             /\ hist'[cur].resolve = "ok"
             /\ CASE adKind' = "homebrew" -> os = "macos" /\ HomebrewIsAvailable(brewAvail')
                  [] adKind' = "winget" -> WinGetIsAvailable
                  [] adKind' = "linux" -> LinuxIsAvailable
                  [] OTHER -> FALSE
       /\ (/\ cur \in 1..Len(tools)
           /\ hist'[cur].pmCalls > hist[cur].pmCalls
           /\ hist'[cur].resolve = "threw") =>
             /\ packageManager = 0
             /\ packageManager' = 0
             /\ adKind' = adKind]_vars

\* on macOS the first tool's resolution failed and left the cache null, and
\* the second tool's resolution cached Homebrew once brew was reachable
C37_Witness ==
    /\ os = "macos" /\ Len(tools) = 2
    /\ hist[1].resolve = "threw"
    /\ hist[2].resolve = "ok"
    /\ packageManager # 0 /\ adKind = "homebrew" /\ brewAvail

\* C35: LinuxInstaller.install hands every command to exactly one installer,
\* chosen in the order apt, then snap, then flatpak, then script (curl or
\* wget), otherwise direct; only an apt install runs the index refresh, and
\* an install is run interactively exactly when it is a script install.
C35_OneMechanism ==
    /\ [](adKind = "linux" /\ os = "linux" =>
            \A tool \in AdapterTools :
               LET c == getInstallCommand(tool, os) IN
               c # NoCmd =>
                 LinuxInstall(tool, ad, sess) =
                   IF "apt-get install" \in c \/ "apt install" \in c THEN installWithApt(ad, sess)
                   ELSE IF "snap install" \in c THEN installWithUniversal("Snap", ad, sess)
                   ELSE IF "flatpak install" \in c THEN installWithUniversal("Flatpak", ad, sess)
                   ELSE IF "curl" \in c \/ "wget" \in c THEN installWithScript(ad, sess)
                   ELSE installDirect(c, ad, sess))
    /\ [](/\ adKind = "linux" /\ os = "linux"
           /\ hist # <<>>
           /\ hist[1].op = "install"
           /\ hist[1].cmd # NoCmd =>
             LET c == hist[1].cmd
                 isApt == "apt-get install" \in c \/ "apt install" \in c
                 isUniversal == "snap install" \in c \/ "flatpak install" \in c
                 isScript == ~isApt /\ ~isUniversal /\ ("curl" \in c \/ "wget" \in c)
             IN /\ hist[1].interactive <=> isScript
                /\ hist[1].probe # {} => isScript)
    /\ [][(/\ adKind = "linux" /\ os = "linux"
            /\ hist' # <<>>
            /\ hist'[1].op = "install"
            /\ hist'[1].refreshRuns = ad'.refreshRuns
            /\ ad'.refreshRuns > ad.refreshRuns) =>
              ("apt-get install" \in hist'[1].cmd \/ "apt install" \in hist'[1].cmd)]_vars

\* the installer has just run a command that fetches with curl and installs
\* with apt-get as an apt install: the index was refreshed, nothing was run
\* interactively
C35_Witness ==
    /\ adKind = "linux" /\ os = "linux"
    /\ hist # <<>>
    /\ hist[1].op = "install"
    /\ hist[1].cmd = {"curl", "sudo", "apt-get install"}
    /\ hist[1].ran /\ ~hist[1].threw /\ ~hist[1].interactive
    /\ hist[1].refreshRuns = 1

\* ------------------------------------------- executeWithOptions, overlapping
InitCwd ==
    /\ InitShell
    /\ os = "linux"
    /\ ~isRoot /\ ~sess.cached /\ ~brewAvail /\ ~aptAvail

\* executeWithOptions({cwd: dir, silent}, command) is called and runs up to
\* its await: originalCwd is read, the directory is changed when dir is set,
\* and the child is spawned.  A chdir that throws is caught at once and the
\* finally block runs.  dir = "" is a call without the cwd option.
CallExecuteWithOptions(dir, silent) ==
    /\ pc = "shell"
    /\ Len(withOptions) < MaxCalls
    /\ LET originalCwd == cwd
           \* the directories that exist; process.chdir throws for any other
           Directories == {"/", "/a", "/b"}
       IN
       IF dir # "" /\ dir \notin Directories
         THEN /\ cwd' = originalCwd
              /\ withOptions' = Append(withOptions,
                    [cwd |-> dir, silent |-> silent, originalCwd |-> originalCwd,
                     state |-> "done", threw |-> ~silent, exitCode |-> {1}])
         ELSE /\ cwd' = IF dir # "" THEN dir ELSE cwd
              /\ withOptions' = Append(withOptions,
                    [cwd |-> dir, silent |-> silent, originalCwd |-> originalCwd,
                     state |-> "awaiting", threw |-> FALSE, exitCode |-> {}])
    /\ UNCHANGED <<selection, run, store, os, tools, pc, cur, active, pending, results, escaped,
                   packageManager, constructed, orchAvail, bootstrapPrompts, hist, procPath,
                   brewAvail, wingetAvail, aptAvail, isRoot, sess, adKind, ad, calls>>

\* the child of call i ends with exit code c: the awaited promise settles,
\* the call returns or throws, and its finally block runs
CommandSettles(i, c) ==
    /\ pc = "shell"
    /\ i \in 1..Len(withOptions)
    /\ withOptions[i].state = "awaiting"
    /\ withOptions' = [withOptions EXCEPT ![i].state = "done", ![i].exitCode = {c},
                                          ![i].threw = (c # 0 /\ ~withOptions[i].silent)]
    /\ cwd' = IF withOptions[i].cwd # "" THEN withOptions[i].originalCwd ELSE cwd
    /\ UNCHANGED <<selection, run, store, os, tools, pc, cur, active, pending, results, escaped,
                   packageManager, constructed, orchAvail, bootstrapPrompts, hist, procPath,
                   brewAvail, wingetAvail, aptAvail, isRoot, sess, adKind, ad, calls>>

NextCwd ==
    \/ \E dir \in {"", "/a", "/b", "/gone"}, silent \in BOOLEAN : CallExecuteWithOptions(dir, silent)
    \/ \E i \in 1..MaxCalls, c \in ExitCodes : CommandSettles(i, c)

SpecCwd == InitCwd /\ [][NextCwd]_vars

\* C38: once no executeWithOptions call is in progress, the working
\* directory is the one that was in effect before the calls were made,
\* whether they returned or threw and whether or not they overlapped.
C38_CwdRestored ==
    (/\ withOptions # <<>>
     /\ \A i \in 1..Len(withOptions) : withOptions[i].state = "done") =>
        cwd = withOptions[1].originalCwd

\* ----------------------------------------------------- main: the selection
\* the categories of the configuration that hold the catalogue's tools
baseCategories ==
    << [id |-> "runtime", order |-> 1, tools |-> <<nvmTool, yarnTool>>],
       [id |-> "versioning", order |-> 2,
        tools |-> <<gitTool, gitkrakenTool, sourcetreeTool>>],
       [id |-> "ios", order |-> 10, tools |-> <<fastlaneTool>>] >>

\* a filterCategoriesByOS that keeps every tool of a category
filterCategoriesByOSKeepsTools(categories, o) ==
    SelectSeq(categories, LAMBDA c : ~(c.id = "ios" /\ o # "macos") /\ c.tools # <<>>)

\* filterCategoriesByOS
filterCategoriesByOS(categories, o) ==
    LET filtered == [k \in 1..Len(categories) |->
                       [categories[k] EXCEPT
                          !.tools = SelectSeq(@, LAMBDA t : getInstallCommand(t, o) # NoCmd)]]
    IN SelectSeq(filtered, LAMBDA c : ~(c.id = "ios" /\ o # "macos") /\ c.tools # <<>>)

\* findToolById: the tool, or nothing (undefined)
findToolById(toolId) == {t \in Catalog : t.id = toolId}

\* the value a cancelled prompt resolves to, and p.isCancel
CancelSymbol == <<"clack:cancel">>
isCancel(value) == value = CancelSymbol

\* createCategoryOptions: the option values, in order
createCategoryOptions(category) ==
    [k \in 1..Len(category.tools) |-> category.tools[k].id]
      \o <<"__install_all__", "__skip__">>

\* processCategorySelection
processCategorySelection(category, selectedValues) ==
    LET has(v) == \E k \in 1..Len(selectedValues) : selectedValues[k] = v IN
    IF has("__install_all__")
      THEN [k \in 1..Len(category.tools) |-> category.tools[k].id]
    ELSE IF has("__skip__") \/ Len(selectedValues) = 0
      THEN <<>>
    ELSE SelectSeq(selectedValues,
                   LAMBDA v : /\ v \notin {"__install_all__", "__skip__"}
                              /\ \E k \in 1..Len(category.tools) : category.tools[k].id = v)

\* selectToolsFromCategory, the multiselect resolving to selected
selectToolsFromCategory(category, selected) ==
    IF isCancel(selected) THEN <<>> ELSE processCategorySelection(category, selected)

\* selectToolsFromCategories: the categories in prompt order
sortedCategories(categories) == SortSeq(categories, LAMBDA a, b : a.order < b.order)

InitMain ==
    /\ InitWorld
    /\ store = NoStore
    /\ run = NoRun
    /\ adKind = "none"
    /\ ad = FreshAdapter
    /\ calls = 0
    /\ tools = <<>>
    /\ cwd = "/"
    /\ withOptions = <<>>
    /\ selection = NoSelection
    /\ pc = "main"
    /\ cur = 0
    /\ active = {}
    /\ pending = NoOutcome
    /\ results = <<>>
    /\ escaped = FALSE
    /\ packageManager = 0
    /\ constructed = 0
    /\ orchAvail = 0
    /\ bootstrapPrompts = 0
    /\ hist = <<>>

\* main up to the first prompt of selectToolsFromCategories
MainStart ==
    /\ pc = "main"
    /\ LET availableCategories == filterCategoriesByOS(baseCategories, os) IN
       /\ selection' = [NoSelection EXCEPT !.categories = availableCategories, !.next = 1]
       /\ pc' = IF availableCategories = <<>> THEN "confirm" ELSE "select"
    /\ UNCHANGED <<cwd, withOptions, run, store, os, tools, cur, active, pending, results,
                   escaped, packageManager, constructed, orchAvail, bootstrapPrompts, hist,
                   procPath, brewAvail, wingetAvail, aptAvail, isRoot, sess, adKind, ad, calls>>

\* the multiselect of the category being asked about resolves: the loop of
\* selectToolsFromCategories goes on to the next prompt or returns, and on
\* return main exits when cancelled is set and otherwise shows the summary
\* and asks for confirmation
SelectCategory ==
    /\ pc = "select"
    /\ LET sorted == sortedCategories(selection.categories)
           category == sorted[selection.next]
           options == createCategoryOptions(category)
           \* what the multiselect can resolve to: the cancel symbol or the
           \* values chosen
           values == {CancelSymbol} \cup
                     { SelectSeq(options, LAMBDA v : v \in chosen) :
                         chosen \in SUBSET {options[k] : k \in 1..Len(options)} }
       IN \E answer \in values :
            LET selected == selectToolsFromCategory(category, answer)
                asked == [selection EXCEPT
                            !.prompts = @ + 1,
                            !.cancelAt = IF @ = 0 /\ isCancel(answer)
                                           THEN selection.next ELSE @]
            IN IF Len(selected) = 0 /\ isCancel(selected)
                 THEN /\ selection' = [asked EXCEPT !.cancelled = TRUE]
                      /\ pc' = "exited"
                 ELSE /\ selection' = [asked EXCEPT !.selectedToolIds = @ \o selected,
                                                    !.next = @ + 1]
                      /\ pc' = IF selection.next = Len(sorted) THEN "confirm" ELSE "select"
    /\ UNCHANGED <<cwd, withOptions, run, store, os, tools, cur, active, pending, results,
                   escaped, packageManager, constructed, orchAvail, bootstrapPrompts, hist,
                   procPath, brewAvail, wingetAvail, aptAvail, isRoot, sess, adKind, ad, calls>>

\* confirmInstallation resolves: main exits unless the answer is yes and some
\* selected id is a known tool, and then calls installTools(toolsToInstall)
ConfirmInstallation(answer) ==
    /\ pc = "confirm"
    /\ LET ids == selection.selectedToolIds
           toolsToInstall == [k \in 1..Len(SelectSeq(ids, LAMBDA v : findToolById(v) # {})) |->
                                CHOOSE t \in findToolById(
                                    SelectSeq(ids, LAMBDA v : findToolById(v) # {})[k]) : TRUE]
       IN IF answer # "yes" \/ toolsToInstall = <<>>
            THEN /\ pc' = "exited"
                 /\ UNCHANGED <<tools, hist>>
            ELSE /\ pc' = "idle"
                 /\ tools' = toolsToInstall
                 /\ hist' = [i \in 1..Len(toolsToInstall) |-> NoHist]
    /\ UNCHANGED <<selection, cwd, withOptions, run, store, os, cur, active, pending, results,
                   escaped, packageManager, constructed, orchAvail, bootstrapPrompts,
                   procPath, brewAvail, wingetAvail, aptAvail, isRoot, sess, adKind, ad, calls>>

NextMain ==
    \/ MainStart
    \/ SelectCategory
    \/ \E answer \in Answers : ConfirmInstallation(answer)

SpecMain == InitMain /\ [][NextMain]_vars

\* C31: every tool main passes to installTools has an install command for
\* the current OS, no tool of the iOS category is passed on an OS other than
\* macOS, and the categories offered hold no such tool either.
C31_OnlyInstallableTools ==
    /\ \A i \in 1..Len(tools) :
          /\ getInstallCommand(tools[i], os) # NoCmd
          /\ os # "macos" => tools[i] # fastlaneTool
    /\ \A k \in 1..Len(selection.categories) :
          /\ selection.categories[k].id = "ios" => os = "macos"
          /\ \A j \in 1..Len(selection.categories[k].tools) :
                getInstallCommand(selection.categories[k].tools[j], os) # NoCmd

\* on Linux everything offered was selected and confirmed: Sourcetree (no
\* Linux command) and Fastlane (iOS category, with a Linux command) are not
\* in the batch
C31_Witness ==
    /\ os = "linux" /\ pc = "idle"
    /\ tools = <<nvmTool, yarnTool, gitTool, gitkrakenTool>>
    /\ selection.prompts = 2

\* C36: once the user has cancelled a category's prompt, cancelled is set,
\* no later category has been asked about, and main neither asks for
\* confirmation nor calls installTools.
C36_CancelStopsSelection ==
    selection.cancelAt # 0 =>
        /\ selection.cancelled
        /\ selection.prompts = selection.cancelAt
        /\ pc = "exited"
        /\ tools = <<>>
====
